---- MODULE Spec2Model ----
(***************************************************************************)
(* Model of the global volume file cache of                                *)
(* source/blender/blenkernel/intern/volume.cc: VolumeFileCache (entries    *)
(* keyed by file path and grid name, with metadata and tree user counts),  *)
(* VolumeGrid (the per-user handle with its own is_loaded flag) and the    *)
(* double-checked-lock load / unload protocol; and of the functions on a    *)
(* Volume that use them: BKE_volume_load, BKE_volume_unload,               *)
(* BKE_volume_grid_load, BKE_volume_grid_unload, BKE_volume_eval_geometry. *)
(*                                                                         *)
(* Threads execute the member functions step by step.  A step is the code  *)
(* between two points where another thread can interleave observably: a    *)
(* mutex acquisition, a file read, a write of a flag that is read without  *)
(* a lock.  A VolumeFileCache member function is one step that acquires    *)
(* the cache mutex and runs the body, followed by a step that releases it. *)
(***************************************************************************)
EXTENDS Integers, Sequences, FiniteSets, TLC

(* ------------------------------ bounds -------------------------------- *)

\* Number of VolumeGrid objects that can be alive at once.
MaxHandles == 3

\* Number of grids the files opened by BKE_volume_load hold in total.
MaxVolumeGrids == 2

Threads == {"t1", "t2"}
NoThread == "none"

\* #define VOLUME_FRAME_NONE INT_MAX
VOLUME_FRAME_NONE == 2147483647

\* A file path is the sequence of its components, the last one the file
\* name; "" (filepath[0] == '\0') is the empty sequence.
EmptyPath == <<>>

\* Volume.filepath of a sequence: directory, file name up to the frame number
\* and extension; the frame number is filled in by volume_filepath_get.
VolumePath == <<"dir", "a_", ".vdb">>

\* The decimal digits BLI_path_frame writes for a frame number.
FrameDigits == <<"0", "1", "2", "3", "4", "5", "6", "7", "8", "9">>
FrameString(frame) == FrameDigits[frame + 1]

\* The scene frames (DEG_get_ctime) the dependency graph evaluates.
SceneFrames == {1, 3}

\* The files a volume can resolve to, and the grids found in them.
FilePaths == {<<"dir", "a_0.vdb">>, <<"dir", "a_1.vdb">>}
GridNames == {"density", "temperature"}

\* Entry * : NULL, or the (filepath, grid_name) of the entry pointed to.
NULL == <<>>
Keys == FilePaths \X GridNames

\* The key used by the handle-level specification.
HandleKeys == {<<<<"dir", "a_1.vdb">>, "density">>}

\* openvdb::GridBase::Ptr as returned by readAllGridMetadata: NULL or a grid
\* with its name.
GridPtr(name) == <<name>>

\* The grid lists a file can hold.
GridLists ==
  { <<>>,
    <<GridPtr("density")>>,
    <<GridPtr("density"), GridPtr("density")>>,
    <<NULL, GridPtr("density")>> }

\* The grid lists the file at filepath can hold: the file of frame 1 holds
\* no grid or two grids with different names, any other file one of GridLists.
FileGrids(filepath) ==
  IF filepath = <<"dir", "a_1.vdb">>
    THEN {<<>>, <<GridPtr("temperature"), GridPtr("density")>>}
    ELSE GridLists

Volumes == {"orig", "cow"}
NoVolume == "none"

HandleIds == 1..MaxHandles
NoHandle == 0

VARIABLES
  cache,    \* GLOBAL_CACHE.cache: key -> Entry, for the entries in the set
  gmutex,   \* GLOBAL_CACHE.mutex: the thread holding it, or NoThread
  grid,     \* the VolumeGrid objects alive: id -> [entry, is_loaded]
  volume,   \* the Volume datablocks: the DNA fields and runtime.frame
  grids,    \* volume->runtime.grids, the VolumeGridVector of each volume:
            \* [filepath, error_msg, elems (the VolumeGrid ids), mutex]
  op,       \* per thread: the function it executes, or "none"
  pc,       \* per thread: its position in that function
  cont,     \* per thread: where it continues after releasing the cache mutex
  hnd,      \* per thread: the VolumeGrid it operates on (this)
  src,      \* per thread: the VolumeGrid a copy is made of (other)
  vol,      \* per thread: the Volume of the BKE_volume_* call it executes
  loc,      \* per thread: local variables (vdb_grids, frame)
  ret,      \* per thread: the value its last BKE_volume_* call returned,
            \* <<b>> for a bool b and <<>> for void
  reads,    \* per key: tree reads (file.readGrid) done while the entry has had
            \* a tree user without interruption (history variable)
  evicted,  \* the key last erased from the cache and what its entry held
            \* (history variable)
  last_load \* per volume: what the last BKE_volume_load call returned, with
            \* the error_msg and runtime.frame it left (history variable)

cachevars == <<cache, gmutex, grid, reads, evicted>>
threadvars == <<op, pc, cont, hnd, src>>
volvars == <<volume, grids, vol, loc, ret, last_load>>
vars == <<cachevars, threadvars, volvars>>

(* --------------------------- VolumeFileCache -------------------------- *)

\* Entry(const std::string &filepath, const openvdb::GridBase::Ptr &grid):
\* a grid from readAllGridMetadata has an empty tree.
Entry(filepath, grid_name) ==
  [filepath |-> filepath, grid_name |-> grid_name, tree |-> "empty",
   is_loaded |-> FALSE, error_msg |-> "",
   num_metadata_users |-> 0, num_tree_users |-> 0, mutex |-> NoThread]

\* Entry(const Entry &other): error_msg and mutex are default-constructed.
EntryCopy(other) ==
  [filepath |-> other.filepath, grid_name |-> other.grid_name,
   tree |-> other.tree, is_loaded |-> other.is_loaded, error_msg |-> "",
   num_metadata_users |-> 0, num_tree_users |-> 0, mutex |-> NoThread]

\* EntryHasher / EntryEqual: the identity of an entry in the set.
EntryKey(e) == <<e.filepath, e.grid_name>>

Erase(c, k) == [x \in (DOMAIN c) \ {k} |-> c[x]]

\* Variant: the tree of an entry without tree users is kept.
update_for_remove_user_noclear(c, k) ==
  IF c[k].num_metadata_users + c[k].num_tree_users = 0 THEN Erase(c, k) ELSE c

\* Variant: an entry without users is kept in the cache as it is.
update_for_remove_user_noerase(c, k) ==
  IF c[k].num_metadata_users + c[k].num_tree_users # 0 /\ c[k].num_tree_users = 0
    THEN [c EXCEPT ![k].tree = "empty", ![k].is_loaded = FALSE]
    ELSE c

update_for_remove_user(c, k) ==
  IF c[k].num_metadata_users + c[k].num_tree_users = 0
    THEN Erase(c, k)
    ELSE IF c[k].num_tree_users = 0
      THEN [c EXCEPT ![k].tree = "empty", ![k].is_loaded = FALSE]
      ELSE c

\* Variant: every call inserts a new entry, in place of the one there is.
add_metadata_user_replace(c, template_entry) ==
  LET k == EntryKey(template_entry)
      e == [EntryCopy(template_entry) EXCEPT !.num_metadata_users = 1]
  IN  [x \in (DOMAIN c) \cup {k} |-> IF x = k THEN e ELSE c[x]]

\* Variant: the error text of an entry that is found is cleared.
add_metadata_user_clear_error(c, template_entry) ==
  LET k == EntryKey(template_entry)
      c1 == IF k \in DOMAIN c THEN c ELSE c @@ (k :> EntryCopy(template_entry))
  IN  [c1 EXCEPT ![k].num_metadata_users = @ + 1, ![k].error_msg = ""]

add_metadata_user(c, template_entry) ==
  LET k == EntryKey(template_entry)
      c1 == IF k \in DOMAIN c THEN c ELSE c @@ (k :> EntryCopy(template_entry))
  IN  [c1 EXCEPT ![k].num_metadata_users = @ + 1]

\* Variant: a copy is always counted as a metadata user.
copy_user_metadata(c, k, tree_user) ==
  [c EXCEPT ![k].num_metadata_users = @ + 1]

copy_user(c, k, tree_user) ==
  IF tree_user
    THEN [c EXCEPT ![k].num_tree_users = @ + 1]
    ELSE [c EXCEPT ![k].num_metadata_users = @ + 1]

\* Variant: the handle's class is ignored and a tree user is removed.
remove_user_tree_only(c, k, tree_user) ==
  update_for_remove_user([c EXCEPT ![k].num_tree_users = @ - 1], k)

\* Variant: the counter is decremented and the entry left in the cache.
remove_user_keep(c, k, tree_user) ==
  IF tree_user
    THEN [c EXCEPT ![k].num_tree_users = @ - 1]
    ELSE [c EXCEPT ![k].num_metadata_users = @ - 1]

remove_user(c, k, tree_user) ==
  update_for_remove_user(
    IF tree_user
      THEN [c EXCEPT ![k].num_tree_users = @ - 1]
      ELSE [c EXCEPT ![k].num_metadata_users = @ - 1], k)

\* Variant: the metadata user is not taken away.
change_to_tree_user_no_decrement(c, k) ==
  update_for_remove_user([c EXCEPT ![k].num_tree_users = @ + 1], k)

change_to_tree_user(c, k) ==
  update_for_remove_user(
    [c EXCEPT ![k].num_tree_users = @ + 1, ![k].num_metadata_users = @ - 1], k)

\* Variant: the tree is cleared whenever a tree user is demoted.
change_to_metadata_user_clear(c, k) ==
  [c EXCEPT ![k].num_metadata_users = @ + 1, ![k].num_tree_users = @ - 1,
            ![k].tree = "empty", ![k].is_loaded = FALSE]

change_to_metadata_user(c, k) ==
  update_for_remove_user(
    [c EXCEPT ![k].num_metadata_users = @ + 1, ![k].num_tree_users = @ - 1], k)

\* The history variable after a cache operation: an entry that is erased or
\* has no tree user starts counting its tree reads afresh.
ReadsAfter(c) ==
  [k \in Keys |-> IF k \in DOMAIN c /\ c[k].num_tree_users > 0 THEN reads[k] ELSE 0]

\* The history variable after a cache operation, which erases at most one
\* entry: the key erased and what its entry held.  It is kept through the
\* insertion of entries and forgotten at the next operation on a present one.
EvictedAfter(c) ==
  IF ~(DOMAIN cache \subseteq DOMAIN c)
    THEN LET k == CHOOSE x \in DOMAIN cache : x \notin DOMAIN c
         IN  <<k, IF cache[k].error_msg # "" THEN "error"
                  ELSE IF cache[k].is_loaded THEN "tree" ELSE "metadata">>
    ELSE IF ~(DOMAIN c \subseteq DOMAIN cache) THEN evicted ELSE <<>>

\* What the entry last erased held, if its key was k.
Evicted(k) ==
  IF evicted # <<>> /\ evicted[1] = k THEN evicted[2] ELSE "never"

(* ------------------------------ VolumeGrid ---------------------------- *)

Idle(t) == pc[t] = "idle"

FreeIds == HandleIds \ DOMAIN grid
NewId == CHOOSE i \in FreeIds : \A j \in FreeIds : i <= j

\* The VolumeGrid objects that BKE_volume_load calls in progress are still
\* to construct: the non-NULL grids left in their vdb_grids lists.
Reserved ==
  Cardinality(UNION {{<<t, i>> : i \in {j \in DOMAIN loc[t] : loc[t][j] # NULL}} :
                       t \in {u \in Threads : pc[u] \in {"vload_emplace", "vload_emplaced"}}})

\* n more VolumeGrid objects fit in the bounded store.
CanAllocate(n) == n + Reserved <= Cardinality(FreeIds)

\* A VolumeGrid whose constructor has not returned is not yet visible to
\* other threads.
UnderConstruction(h) ==
  \E t \in Threads :
    hnd[t] = h /\ (op[t] \in {"ctor", "copy"} \/ pc[t] = "vload_emplaced")

\* Some thread executes a member function of h, or copies from h.
InUse(h) == \E t \in Threads : hnd[t] = h \/ src[t] = h

\* A member function can be called on h: h is constructed, and no thread is
\* destroying it or copying from it.
Usable(h) ==
  /\ h \in DOMAIN grid
  /\ ~UnderConstruction(h)
  /\ \A t \in Threads : src[t] # h

\* The member function returns: to the caller of the thread, or into
\* BKE_volume_grid_load when that called load().
Return(t) ==
  IF vol[t] = NoVolume
    THEN /\ op' = [op EXCEPT ![t] = "none"]
         /\ pc' = [pc EXCEPT ![t] = "idle"]
         /\ cont' = [cont EXCEPT ![t] = "idle"]
         /\ hnd' = [hnd EXCEPT ![t] = NoHandle]
         /\ src' = [src EXCEPT ![t] = NoHandle]
    ELSE /\ op' = [op EXCEPT ![t] = "grid_load"]
         /\ pc' = [pc EXCEPT ![t] = "gload_error"]
         /\ UNCHANGED <<cont, hnd, src>>

\* Leave the cache member function: std::lock_guard releases GLOBAL_CACHE.mutex.
CacheUnlock(t) ==
  /\ pc[t] = "unlock"
  /\ gmutex = t
  /\ gmutex' = NoThread
  /\ IF cont[t] = "idle"
       THEN Return(t)
       ELSE /\ pc' = [pc EXCEPT ![t] = cont[t]]
            /\ cont' = [cont EXCEPT ![t] = "idle"]
            /\ UNCHANGED <<op, hnd, src>>
  /\ UNCHANGED <<cache, grid, reads, evicted>>
  /\ UNCHANGED volvars

\* VolumeGrid(const VolumeFileCache::Entry &template_entry)
VolumeGrid_Entry(t, k) ==
  /\ Idle(t)
  /\ CanAllocate(1)
  /\ gmutex = NoThread
  /\ gmutex' = t
  /\ cache' = add_metadata_user(cache, Entry(k[1], k[2]))
  /\ grid' = grid @@ (NewId :> [entry |-> k, is_loaded |-> FALSE])
  /\ op' = [op EXCEPT ![t] = "ctor"]
  /\ hnd' = [hnd EXCEPT ![t] = NewId]
  /\ pc' = [pc EXCEPT ![t] = "unlock"]
  /\ reads' = ReadsAfter(cache')
  /\ evicted' = EvictedAfter(cache')
  /\ UNCHANGED <<cont, src>>
  /\ UNCHANGED volvars

\* VolumeGrid(const openvdb::GridBase::Ptr &vdb): a grid that is not
\* file-backed.
VolumeGrid_Vdb(t) ==
  /\ Idle(t)
  /\ CanAllocate(1)
  /\ grid' = grid @@ (NewId :> [entry |-> NULL, is_loaded |-> TRUE])
  /\ UNCHANGED <<cache, gmutex, op, pc, cont, hnd, src, reads, evicted>>
  /\ UNCHANGED volvars

\* VolumeGrid(const VolumeGrid &other), the member initialisers:
\* entry(other.entry), is_loaded(other.is_loaded).  The read of
\* other.is_loaded is not synchronised: the caller copies an object that no
\* thread is changing.
VolumeGrid_Copy(t, other) ==
  /\ Idle(t)
  /\ Usable(other)
  /\ ~InUse(other)
  /\ CanAllocate(1)
  /\ grid' = grid @@ (NewId :> grid[other])
  /\ IF grid[other].entry = NULL
       THEN UNCHANGED <<op, pc, hnd, src>>
       ELSE /\ op' = [op EXCEPT ![t] = "copy"]
            /\ pc' = [pc EXCEPT ![t] = "copy_user"]
            /\ hnd' = [hnd EXCEPT ![t] = NewId]
            /\ src' = [src EXCEPT ![t] = other]
  /\ UNCHANGED <<cache, gmutex, cont, reads, evicted>>
  /\ UNCHANGED volvars

\* ... and its body: GLOBAL_CACHE.copy_user(*entry, is_loaded).
VolumeGrid_Copy_user(t) ==
  /\ pc[t] = "copy_user"
  /\ gmutex = NoThread
  /\ gmutex' = t
  /\ cache' = copy_user(cache, grid[hnd[t]].entry, grid[hnd[t]].is_loaded)
  /\ pc' = [pc EXCEPT ![t] = "unlock"]
  /\ reads' = ReadsAfter(cache')
  /\ evicted' = EvictedAfter(cache')
  /\ UNCHANGED <<grid, op, cont, hnd, src>>
  /\ UNCHANGED volvars

\* ~VolumeGrid().  The caller destroys an object no thread is using.
VolumeGrid_Destroy(t, h) ==
  /\ Idle(t)
  /\ Usable(h)
  /\ ~InUse(h)
  /\ grid' = [x \in (DOMAIN grid) \ {h} |-> grid[x]]
  /\ IF grid[h].entry = NULL
       THEN UNCHANGED <<cache, gmutex, op, pc, reads, evicted>>
       ELSE /\ gmutex = NoThread
            /\ gmutex' = t
            /\ cache' = remove_user(cache, grid[h].entry, grid[h].is_loaded)
            /\ op' = [op EXCEPT ![t] = "dtor"]
            /\ pc' = [pc EXCEPT ![t] = "unlock"]
            /\ reads' = ReadsAfter(cache')
            /\ evicted' = EvictedAfter(cache')
  /\ UNCHANGED <<cont, hnd, src>>
  /\ UNCHANGED volvars

\* The outcome of file.open() and file.readGrid(name()): the tree, or an
\* openvdb::IoError.
ReadOutcomes == {"ok", "IoError"}

\* Variant: load() takes the global lock first and keeps it while it waits
\* for the entry's mutex.
VolumeGrid_load_global_first(t, h) ==
  /\ Idle(t)
  /\ Usable(h)
  /\ IF grid[h].is_loaded \/ grid[h].entry = NULL
       THEN UNCHANGED <<op, pc, hnd, gmutex>>
       ELSE /\ gmutex = NoThread
            /\ gmutex' = t
            /\ op' = [op EXCEPT ![t] = "load"]
            /\ pc' = [pc EXCEPT ![t] = "load_lock"]
            /\ hnd' = [hnd EXCEPT ![t] = h]
  /\ UNCHANGED <<cache, grid, cont, src, reads, evicted>>
  /\ UNCHANGED volvars

\* load(): if (is_loaded || entry == NULL) return;
VolumeGrid_load(t, h) ==
  /\ Idle(t)
  /\ Usable(h)
  /\ IF grid[h].is_loaded \/ grid[h].entry = NULL
       THEN UNCHANGED <<op, pc, hnd>>
       ELSE /\ op' = [op EXCEPT ![t] = "load"]
            /\ pc' = [pc EXCEPT ![t] = "load_lock"]
            /\ hnd' = [hnd EXCEPT ![t] = h]
  /\ UNCHANGED <<cache, gmutex, grid, cont, src, reads, evicted>>
  /\ UNCHANGED volvars

\* Variant: is_loaded is not tested again once the entry's mutex is taken.
load_lock_no_recheck(t) ==
  LET k == grid[hnd[t]].entry
  IN  /\ pc[t] = "load_lock"
      /\ cache[k].mutex = NoThread
      /\ cache' = [cache EXCEPT ![k].mutex = t]
      /\ pc' = [pc EXCEPT ![t] = "load_change"]
      /\ UNCHANGED <<gmutex, grid, reads, evicted, op, cont, hnd, src>>
      /\ UNCHANGED volvars

\* Variant: load() goes on without taking the entry's mutex.
load_lock_no_mutex(t) ==
  /\ pc[t] = "load_lock"
  /\ IF grid[hnd[t]].is_loaded
       THEN Return(t)
       ELSE /\ pc' = [pc EXCEPT ![t] = "load_change"]
            /\ UNCHANGED <<op, cont, hnd, src>>
  /\ UNCHANGED <<cache, gmutex, grid, reads, evicted>>
  /\ UNCHANGED volvars

\* std::lock_guard<std::mutex> lock(entry->mutex); if (is_loaded) return;
load_lock(t) ==
  LET h == hnd[t]
      k == grid[h].entry
  IN  /\ pc[t] = "load_lock"
      /\ cache[k].mutex = NoThread
      /\ IF grid[h].is_loaded
           THEN /\ Return(t)
                /\ UNCHANGED cache
           ELSE /\ cache' = [cache EXCEPT ![k].mutex = t]
                /\ pc' = [pc EXCEPT ![t] = "load_change"]
                /\ UNCHANGED <<op, cont, hnd, src>>
      /\ UNCHANGED <<gmutex, grid, reads, evicted>>
      /\ UNCHANGED volvars

\* Variant: the counters are changed without taking the cache's mutex.
load_change_unlocked(t) ==
  /\ pc[t] = "load_change"
  /\ cache' = change_to_tree_user(cache, grid[hnd[t]].entry)
  /\ pc' = [pc EXCEPT ![t] = "load_check"]
  /\ reads' = ReadsAfter(cache')
  /\ evicted' = EvictedAfter(cache')
  /\ UNCHANGED <<gmutex, grid, op, cont, hnd, src>>
  /\ UNCHANGED volvars

\* GLOBAL_CACHE.change_to_tree_user(*entry);
load_change(t) ==
  /\ pc[t] = "load_change"
  /\ gmutex = NoThread
  /\ gmutex' = t
  /\ cache' = change_to_tree_user(cache, grid[hnd[t]].entry)
  /\ pc' = [pc EXCEPT ![t] = "unlock"]
  /\ cont' = [cont EXCEPT ![t] = "load_check"]
  /\ reads' = ReadsAfter(cache')
  /\ evicted' = EvictedAfter(cache')
  /\ UNCHANGED <<grid, op, hnd, src>>
  /\ UNCHANGED volvars

\* Variant: the second check is left out and the file is always read.
load_check_always_read(t) ==
  /\ pc[t] = "load_check"
  /\ pc' = [pc EXCEPT ![t] = "load_read"]
  /\ UNCHANGED <<cachevars, op, cont, hnd, src>>
  /\ UNCHANGED volvars

\* if (entry->is_loaded) { is_loaded = true; return; }
load_check(t) ==
  LET h == hnd[t]
      k == grid[h].entry
  IN  /\ pc[t] = "load_check"
      /\ IF cache[k].is_loaded
           THEN /\ grid' = [grid EXCEPT ![h].is_loaded = TRUE]
                /\ cache' = [cache EXCEPT ![k].mutex = NoThread]
                /\ Return(t)
           ELSE /\ pc' = [pc EXCEPT ![t] = "load_read"]
                /\ UNCHANGED <<cache, grid, op, cont, hnd, src>>
      /\ UNCHANGED <<gmutex, reads, evicted>>
      /\ UNCHANGED volvars

\* file.open(); vdb_grid = file.readGrid(name());
\* entry->grid->setTree(vdb_grid->baseTreePtr());
\* catch (const openvdb::IoError &e) { entry->error_msg = e.what(); }
load_read(t) ==
  LET k == grid[hnd[t]].entry
  IN  /\ pc[t] = "load_read"
      /\ \E outcome \in ReadOutcomes :
           cache' = IF outcome = "ok"
                      THEN [cache EXCEPT ![k].tree = "tree"]
                      ELSE [cache EXCEPT ![k].error_msg = outcome]
      /\ reads' = [reads EXCEPT ![k] = @ + 1]
      /\ UNCHANGED evicted
      /\ pc' = [pc EXCEPT ![t] = "load_publish"]
      /\ UNCHANGED <<gmutex, grid, op, cont, hnd, src>>
      /\ UNCHANGED volvars

\* Variant: the entry is marked as loaded only when the read succeeded.
load_publish_success_only(t) ==
  LET k == grid[hnd[t]].entry
  IN  /\ pc[t] = "load_publish"
      /\ cache' = [cache EXCEPT ![k].is_loaded = (cache[k].error_msg = "")]
      /\ pc' = [pc EXCEPT ![t] = "load_done"]
      /\ UNCHANGED <<gmutex, grid, op, cont, hnd, src, reads, evicted>>
      /\ UNCHANGED volvars

\* std::atomic_thread_fence(std::memory_order_release); entry->is_loaded = true;
load_publish(t) ==
  LET k == grid[hnd[t]].entry
  IN  /\ pc[t] = "load_publish"
      /\ cache' = [cache EXCEPT ![k].is_loaded = TRUE]
      /\ pc' = [pc EXCEPT ![t] = "load_done"]
      /\ UNCHANGED <<gmutex, grid, op, cont, hnd, src, reads, evicted>>
      /\ UNCHANGED volvars

\* is_loaded = true; and the lock_guard releases entry->mutex.
load_done(t) ==
  LET h == hnd[t]
      k == grid[h].entry
  IN  /\ pc[t] = "load_done"
      /\ grid' = [grid EXCEPT ![h].is_loaded = TRUE]
      /\ cache' = [cache EXCEPT ![k].mutex = NoThread]
      /\ Return(t)
      /\ UNCHANGED <<gmutex, reads, evicted>>
      /\ UNCHANGED volvars

\* Variant: unload() does not test entry == NULL and marks a grid that is not
\* file-backed as not loaded.
VolumeGrid_unload_private(t, h) ==
  /\ Idle(t)
  /\ Usable(h)
  /\ IF ~grid[h].is_loaded
       THEN UNCHANGED <<op, pc, hnd, grid>>
       ELSE IF grid[h].entry = NULL
         THEN /\ grid' = [grid EXCEPT ![h].is_loaded = FALSE]
              /\ UNCHANGED <<op, pc, hnd>>
         ELSE /\ op' = [op EXCEPT ![t] = "unload"]
              /\ pc' = [pc EXCEPT ![t] = "unload_lock"]
              /\ hnd' = [hnd EXCEPT ![t] = h]
              /\ UNCHANGED grid
  /\ UNCHANGED <<cache, gmutex, cont, src, reads, evicted>>
  /\ UNCHANGED volvars

\* unload(): if (!is_loaded || entry == NULL) return;
VolumeGrid_unload(t, h) ==
  /\ Idle(t)
  /\ Usable(h)
  /\ IF ~grid[h].is_loaded \/ grid[h].entry = NULL
       THEN UNCHANGED <<op, pc, hnd>>
       ELSE /\ op' = [op EXCEPT ![t] = "unload"]
            /\ pc' = [pc EXCEPT ![t] = "unload_lock"]
            /\ hnd' = [hnd EXCEPT ![t] = h]
  /\ UNCHANGED <<cache, gmutex, grid, cont, src, reads, evicted>>
  /\ UNCHANGED volvars

\* Variant: unload() goes on without taking the entry's mutex.
unload_lock_no_mutex(t) ==
  /\ pc[t] = "unload_lock"
  /\ IF ~grid[hnd[t]].is_loaded
       THEN Return(t)
       ELSE /\ pc' = [pc EXCEPT ![t] = "unload_change"]
            /\ UNCHANGED <<op, cont, hnd, src>>
  /\ UNCHANGED <<cache, gmutex, grid, reads, evicted>>
  /\ UNCHANGED volvars

\* std::lock_guard<std::mutex> lock(entry->mutex); if (!is_loaded) return;
unload_lock(t) ==
  LET h == hnd[t]
      k == grid[h].entry
  IN  /\ pc[t] = "unload_lock"
      /\ cache[k].mutex = NoThread
      /\ IF ~grid[h].is_loaded
           THEN /\ Return(t)
                /\ UNCHANGED cache
           ELSE /\ cache' = [cache EXCEPT ![k].mutex = t]
                /\ pc' = [pc EXCEPT ![t] = "unload_change"]
                /\ UNCHANGED <<op, cont, hnd, src>>
      /\ UNCHANGED <<gmutex, grid, reads, evicted>>
      /\ UNCHANGED volvars

\* Variant: unload() removes the tree user and adds no metadata user.
unload_change_remove(t) ==
  /\ pc[t] = "unload_change"
  /\ gmutex = NoThread
  /\ gmutex' = t
  /\ cache' = [cache EXCEPT ![grid[hnd[t]].entry].num_tree_users = @ - 1]
  /\ pc' = [pc EXCEPT ![t] = "unlock"]
  /\ cont' = [cont EXCEPT ![t] = "unload_done"]
  /\ reads' = ReadsAfter(cache')
  /\ evicted' = EvictedAfter(cache')
  /\ UNCHANGED <<grid, op, hnd, src>>
  /\ UNCHANGED volvars

\* GLOBAL_CACHE.change_to_metadata_user(*entry);
unload_change(t) ==
  /\ pc[t] = "unload_change"
  /\ gmutex = NoThread
  /\ gmutex' = t
  /\ cache' = change_to_metadata_user(cache, grid[hnd[t]].entry)
  /\ pc' = [pc EXCEPT ![t] = "unlock"]
  /\ cont' = [cont EXCEPT ![t] = "unload_done"]
  /\ reads' = ReadsAfter(cache')
  /\ evicted' = EvictedAfter(cache')
  /\ UNCHANGED <<grid, op, hnd, src>>
  /\ UNCHANGED volvars

\* Variant: unload() also resets the is_loaded of the entry.
unload_done_reset_entry(t) ==
  LET h == hnd[t]
      k == grid[h].entry
  IN  /\ pc[t] = "unload_done"
      /\ grid' = [grid EXCEPT ![h].is_loaded = FALSE]
      /\ cache' = [cache EXCEPT ![k].mutex = NoThread, ![k].is_loaded = FALSE]
      /\ Return(t)
      /\ UNCHANGED <<gmutex, reads, evicted>>
      /\ UNCHANGED volvars

\* std::atomic_thread_fence(std::memory_order_release); is_loaded = false;
\* and the lock_guard releases entry->mutex.
unload_done(t) ==
  LET h == hnd[t]
      k == grid[h].entry
  IN  /\ pc[t] = "unload_done"
      /\ grid' = [grid EXCEPT ![h].is_loaded = FALSE]
      /\ cache' = [cache EXCEPT ![k].mutex = NoThread]
      /\ Return(t)
      /\ UNCHANGED <<gmutex, reads, evicted>>
      /\ UNCHANGED volvars

\* const char *error_message() const: a pointer to the message, <<msg>>,
\* or NULL.
error_message(h) ==
  IF grid[h].is_loaded /\ grid[h].entry # NULL /\ cache[grid[h].entry].error_msg # ""
    THEN <<cache[grid[h].entry].error_msg>>
    ELSE NULL

(* ------------------------- sequence and file path --------------------- *)

\* The % of C: the remainder has the sign of the dividend.
CRem(a, b) ==
  LET m == IF b < 0 THEN -b ELSE b
  IN  IF a >= 0 THEN a % m ELSE -((-a) % m)

clamp_i(value, min, max) ==
  IF value < min THEN min ELSE IF value > max THEN max ELSE value

\* Variant: the ping-pong period is 2 * frame_duration.
volume_sequence_frame_long_period(scene_frame, vo) ==
  IF ~vo.is_sequence THEN 0
  ELSE IF vo.frame_duration = 0 THEN VOLUME_FRAME_NONE
  ELSE
    LET frame == scene_frame - vo.frame_start + 1
        duration == vo.frame_duration
        repeat == LET r == CRem(frame, duration)
                      p == IF r < 0 THEN r + duration ELSE r
                  IN  IF p = 0 THEN duration ELSE p
        pingpong == LET pingpong_duration == duration * 2
                        r == CRem(frame, pingpong_duration)
                        p == IF r < 0 THEN r + pingpong_duration ELSE r
                        q == IF p = 0 THEN pingpong_duration ELSE p
                    IN  IF q > duration THEN duration * 2 - q ELSE q
    IN  CASE vo.sequence_mode = "CLIP" ->
               IF frame < 1 \/ frame > duration
                 THEN VOLUME_FRAME_NONE
                 ELSE frame + vo.frame_offset
          [] vo.sequence_mode = "EXTEND" ->
               clamp_i(frame, 1, duration) + vo.frame_offset
          [] vo.sequence_mode = "REPEAT" -> repeat + vo.frame_offset
          [] vo.sequence_mode = "PING_PONG" -> pingpong + vo.frame_offset
          [] OTHER -> frame + vo.frame_offset

\* Variant: CLIP keeps the frame before the first one.
volume_sequence_frame_clip_from_zero(scene_frame, vo) ==
  IF ~vo.is_sequence THEN 0
  ELSE IF vo.frame_duration = 0 THEN VOLUME_FRAME_NONE
  ELSE
    LET frame == scene_frame - vo.frame_start + 1
        duration == vo.frame_duration
        repeat == LET r == CRem(frame, duration)
                      p == IF r < 0 THEN r + duration ELSE r
                  IN  IF p = 0 THEN duration ELSE p
        pingpong == LET pingpong_duration == duration * 2 - 2
                        r == CRem(frame, pingpong_duration)
                        p == IF r < 0 THEN r + pingpong_duration ELSE r
                        q == IF p = 0 THEN pingpong_duration ELSE p
                    IN  IF q > duration THEN duration * 2 - q ELSE q
    IN  CASE vo.sequence_mode = "CLIP" ->
               IF frame < 0 \/ frame > duration
                 THEN VOLUME_FRAME_NONE
                 ELSE frame + vo.frame_offset
          [] vo.sequence_mode = "EXTEND" ->
               clamp_i(frame, 1, duration) + vo.frame_offset
          [] vo.sequence_mode = "REPEAT" -> repeat + vo.frame_offset
          [] vo.sequence_mode = "PING_PONG" -> pingpong + vo.frame_offset
          [] OTHER -> frame + vo.frame_offset

\* Variant: REPEAT does not correct a negative remainder.
volume_sequence_frame_repeat_c_remainder(scene_frame, vo) ==
  IF ~vo.is_sequence THEN 0
  ELSE IF vo.frame_duration = 0 THEN VOLUME_FRAME_NONE
  ELSE
    LET frame == scene_frame - vo.frame_start + 1
        duration == vo.frame_duration
        repeat == LET r == CRem(frame, duration)
                      p == r
                  IN  IF p = 0 THEN duration ELSE p
        pingpong == LET pingpong_duration == duration * 2 - 2
                        r == CRem(frame, pingpong_duration)
                        p == IF r < 0 THEN r + pingpong_duration ELSE r
                        q == IF p = 0 THEN pingpong_duration ELSE p
                    IN  IF q > duration THEN duration * 2 - q ELSE q
    IN  CASE vo.sequence_mode = "CLIP" ->
               IF frame < 1 \/ frame > duration
                 THEN VOLUME_FRAME_NONE
                 ELSE frame + vo.frame_offset
          [] vo.sequence_mode = "EXTEND" ->
               clamp_i(frame, 1, duration) + vo.frame_offset
          [] vo.sequence_mode = "REPEAT" -> repeat + vo.frame_offset
          [] vo.sequence_mode = "PING_PONG" -> pingpong + vo.frame_offset
          [] OTHER -> frame + vo.frame_offset

\* static int volume_sequence_frame(depsgraph, volume), scene_frame being
\* DEG_get_ctime(depsgraph).
volume_sequence_frame(scene_frame, vo) ==
  IF ~vo.is_sequence THEN 0
  ELSE IF vo.frame_duration = 0 THEN VOLUME_FRAME_NONE
  ELSE
    LET frame == scene_frame - vo.frame_start + 1
        duration == vo.frame_duration
        repeat == LET r == CRem(frame, duration)
                      p == IF r < 0 THEN r + duration ELSE r
                  IN  IF p = 0 THEN duration ELSE p
        pingpong == LET pingpong_duration == duration * 2 - 2
                        r == CRem(frame, pingpong_duration)
                        p == IF r < 0 THEN r + pingpong_duration ELSE r
                        q == IF p = 0 THEN pingpong_duration ELSE p
                    IN  IF q > duration THEN duration * 2 - q ELSE q
    IN  CASE vo.sequence_mode = "CLIP" ->
               IF frame < 1 \/ frame > duration
                 THEN VOLUME_FRAME_NONE
                 ELSE frame + vo.frame_offset
          [] vo.sequence_mode = "EXTEND" ->
               clamp_i(frame, 1, duration) + vo.frame_offset
          [] vo.sequence_mode = "REPEAT" -> repeat + vo.frame_offset
          [] vo.sequence_mode = "PING_PONG" -> pingpong + vo.frame_offset
          [] OTHER -> frame + vo.frame_offset

\* The outcome of an integer division by zero that traps: the process is
\* ended by the signal.
SIGFPE == <<>>

\* frame % pingpong_duration with pingpong_duration == 0, that is with
\* frame_duration == 1 in mode VOLUME_SEQUENCE_PING_PONG: the behaviour of
\* the program is undefined.
pingpong_undefined(vo) ==
  /\ vo.is_sequence
  /\ vo.frame_duration # 0
  /\ vo.sequence_mode = "PING_PONG"
  /\ vo.frame_duration * 2 - 2 = 0

\* The results of volume_sequence_frame, as one-element tuples.  Where the
\* behaviour is undefined the build either traps or goes on with some value
\* as the remainder: 0, or the dividend (what a division instruction that
\* yields quotient 0 for divisor 0 gives).
volume_sequence_frame_results(scene_frame, vo) ==
  IF pingpong_undefined(vo)
    THEN LET frame == scene_frame - vo.frame_start + 1
             duration == vo.frame_duration
             folded(r) == IF r > duration THEN duration * 2 - r ELSE r
         IN  {SIGFPE} \cup {<<folded(r) + vo.frame_offset>> : r \in {0, frame}}
    ELSE {<<volume_sequence_frame(scene_frame, vo)>>}

\* static void volume_filepath_get(bmain, volume, r_filepath): the absolute
\* path, with the frame number of a sequence replaced by runtime.frame.
volume_filepath_get(v) ==
  LET path == volume[v].filepath
  IN  IF volume[v].is_sequence /\ Len(path) = 3
        THEN <<path[1], path[2] \o FrameString(volume[v].frame) \o path[3]>>
        ELSE path

\* BLI_split_file_part: the file name without its directory.
BLI_split_file_part(path) == path[Len(path)]

(* ----------------------------- BKE_volume_* --------------------------- *)

\* Variant: a volume with a file path never counts as loaded.
BKE_volume_is_loaded_never(v) == volume[v].filepath = EmptyPath

\* bool BKE_volume_is_loaded(const Volume *volume)
BKE_volume_is_loaded(v) ==
  volume[v].filepath = EmptyPath \/ grids[v].filepath # EmptyPath

\* The history variables ret and last_load are kept by the specifications
\* whose Init gives them a value per thread and per volume; a specification
\* that starts them as <<>> keeps no history of the values returned.
Returned(t, value) ==
  IF DOMAIN ret = {} THEN ret ELSE [ret EXCEPT ![t] = value]

Recorded(v, record) ==
  IF DOMAIN last_load = {} THEN last_load ELSE [last_load EXCEPT ![v] = record]

\* A BKE_volume_* call of thread t returns value.
VolumeReturn(t, value) ==
  /\ op' = [op EXCEPT ![t] = "none"]
  /\ pc' = [pc EXCEPT ![t] = "idle"]
  /\ cont' = [cont EXCEPT ![t] = "idle"]
  /\ hnd' = [hnd EXCEPT ![t] = NoHandle]
  /\ vol' = [vol EXCEPT ![t] = NoVolume]
  /\ loc' = [loc EXCEPT ![t] = <<>>]
  /\ ret' = Returned(t, value)

\* What the history variable records when BKE_volume_load returns: the
\* value returned, the collection's error_msg and the volume's frame at that
\* moment, and whether an earlier call had returned since the last unload.
LoadRecord(v, value, error_msg) ==
  IF DOMAIN last_load = {}
    THEN last_load
    ELSE [last_load EXCEPT ![v] =
            <<[ret |-> value, error_msg |-> error_msg, frame |-> volume[v].frame,
               again |-> last_load[v] # <<>>]>>]

\* Variant: BKE_volume_load without the test of runtime.frame.
BKE_volume_load_no_frame_test(t, v) ==
  /\ Idle(t)
  /\ IF BKE_volume_is_loaded(v)
       THEN /\ VolumeReturn(t, <<grids[v].error_msg = "">>)
            /\ last_load' = LoadRecord(v, grids[v].error_msg = "", grids[v].error_msg)
       ELSE /\ op' = [op EXCEPT ![t] = "volume_load"]
            /\ pc' = [pc EXCEPT ![t] = "vload_lock"]
            /\ vol' = [vol EXCEPT ![t] = v]
            /\ UNCHANGED <<cont, hnd, loc, ret, last_load>>
  /\ UNCHANGED <<cachevars, src, volume, grids>>

\* bool BKE_volume_load(Volume *volume, Main *bmain), up to the lock:
\* if (volume->runtime.frame == VOLUME_FRAME_NONE) return true;
\* if (BKE_volume_is_loaded(volume)) return grids.error_msg.empty();
BKE_volume_load(t, v) ==
  /\ Idle(t)
  /\ IF volume[v].frame = VOLUME_FRAME_NONE
       THEN /\ VolumeReturn(t, <<TRUE>>)
            /\ last_load' = LoadRecord(v, TRUE, grids[v].error_msg)
       ELSE IF BKE_volume_is_loaded(v)
         THEN /\ VolumeReturn(t, <<grids[v].error_msg = "">>)
              /\ last_load' = LoadRecord(v, grids[v].error_msg = "", grids[v].error_msg)
         ELSE /\ op' = [op EXCEPT ![t] = "volume_load"]
              /\ pc' = [pc EXCEPT ![t] = "vload_lock"]
              /\ vol' = [vol EXCEPT ![t] = v]
              /\ UNCHANGED <<cont, hnd, loc, ret, last_load>>
  /\ UNCHANGED <<cachevars, src, volume, grids>>

\* Variant: no second test of BKE_volume_is_loaded under the mutex.
vload_lock_no_recheck(t) ==
  LET v == vol[t]
  IN  /\ pc[t] = "vload_lock"
      /\ grids[v].mutex = NoThread
      /\ grids' = [grids EXCEPT ![v].mutex = t,
                                ![v].filepath = volume_filepath_get(v)]
      /\ pc' = [pc EXCEPT ![t] = "vload_exists"]
      /\ UNCHANGED <<op, cont, hnd, vol, loc, ret, last_load>>
      /\ UNCHANGED <<cachevars, src, volume>>

\* std::lock_guard<std::mutex> lock(grids.mutex);
\* if (BKE_volume_is_loaded(volume)) return grids.error_msg.empty();
\* volume_filepath_get(bmain, volume, grids.filepath);
vload_lock(t) ==
  LET v == vol[t]
  IN  /\ pc[t] = "vload_lock"
      /\ grids[v].mutex = NoThread
      /\ IF BKE_volume_is_loaded(v)
           THEN /\ VolumeReturn(t, <<grids[v].error_msg = "">>)
                /\ last_load' = LoadRecord(v, grids[v].error_msg = "", grids[v].error_msg)
                /\ UNCHANGED grids
           ELSE /\ grids' = [grids EXCEPT ![v].mutex = t,
                                          ![v].filepath = volume_filepath_get(v)]
                /\ pc' = [pc EXCEPT ![t] = "vload_exists"]
                /\ UNCHANGED <<op, cont, hnd, vol, loc, ret, last_load>>
      /\ UNCHANGED <<cachevars, src, volume>>

\* Variant: the error is recorded and the call goes on to open the file.
vload_exists_continue(t) ==
  LET v == vol[t]
      msg == grids[v].filepath[Len(grids[v].filepath)] \o " not found"
  IN  /\ pc[t] \in {"vload_exists", "vload_exists2"}
      /\ \E exists \in BOOLEAN :
           grids' = IF exists THEN grids ELSE [grids EXCEPT ![v].error_msg = msg]
      /\ pc' = [pc EXCEPT ![t] =
           IF pc[t] = "vload_exists" THEN "vload_exists2" ELSE "vload_open"]
      /\ UNCHANGED <<cachevars, op, cont, hnd, src, vol, loc, ret, volume, last_load>>

\* if (!BLI_exists(grids.filepath)) { grids.error_msg = filename + " not found";
\* return false; }  The code has this test twice in a row.
vload_exists(t) ==
  LET v == vol[t]
      msg == BLI_split_file_part(grids[v].filepath) \o " not found"
  IN  /\ pc[t] \in {"vload_exists", "vload_exists2"}
      /\ \E exists \in BOOLEAN :
           IF ~exists
             THEN /\ grids' = [grids EXCEPT ![v].error_msg = msg,
                                            ![v].mutex = NoThread]
                  /\ VolumeReturn(t, <<FALSE>>)
                  /\ last_load' = LoadRecord(v, FALSE, msg)
             ELSE /\ pc' = [pc EXCEPT ![t] =
                       IF pc[t] = "vload_exists" THEN "vload_exists2" ELSE "vload_open"]
                  /\ UNCHANGED <<grids, op, cont, hnd, vol, loc, ret, last_load>>
      /\ UNCHANGED <<cachevars, src, volume>>

\* The non-NULL grids of a list.
NonNull(list) == {i \in DOMAIN list : list[i] # NULL}

\* file.open(); vdb_grids = *(file.readAllGridMetadata());
\* catch (const openvdb::IoError &e) { grids.error_msg = e.what(); }
\* The file holds a list of grids the model has VolumeGrid objects for.
vload_open(t) ==
  LET v == vol[t]
  IN  /\ pc[t] = "vload_open"
      /\ \/ /\ grids' = [grids EXCEPT ![v].error_msg = "IoError"]
            /\ loc' = [loc EXCEPT ![t] = <<>>]
         \/ \E vdb_grids \in FileGrids(grids[v].filepath) :
              /\ CanAllocate(Cardinality(NonNull(vdb_grids)))
              /\ Cardinality(NonNull(vdb_grids)) + Reserved + Cardinality(DOMAIN grid)
                   <= MaxVolumeGrids
              /\ loc' = [loc EXCEPT ![t] = vdb_grids]
              /\ UNCHANGED grids
      /\ pc' = [pc EXCEPT ![t] = "vload_emplace"]
      /\ UNCHANGED <<cachevars, op, cont, hnd, src, vol, ret, volume, last_load>>

\* for (vdb_grid : vdb_grids) if (vdb_grid) grids.emplace_back(template_entry);
\* and, after the loop, return grids.error_msg.empty().  emplace_back runs
\* VolumeGrid(template_entry), that is add_metadata_user.  When the vector
\* reallocates it copies each element and then destroys the old one
\* (copy_user, then remove_user): the counters end as they were and no entry
\* is erased, so the step is left out.
vload_emplace(t) ==
  LET v == vol[t]
      vdb_grids == loc[t]
  IN  /\ pc[t] = "vload_emplace"
      /\ IF vdb_grids = <<>>
           THEN /\ grids' = [grids EXCEPT ![v].mutex = NoThread]
                /\ VolumeReturn(t, <<grids[v].error_msg = "">>)
                /\ last_load' = LoadRecord(v, grids[v].error_msg = "", grids[v].error_msg)
                /\ UNCHANGED cachevars
           ELSE IF Head(vdb_grids) = NULL
             THEN /\ loc' = [loc EXCEPT ![t] = Tail(vdb_grids)]
                  /\ UNCHANGED <<cachevars, grids, op, pc, cont, hnd, vol, ret, last_load>>
             ELSE /\ gmutex = NoThread
                  /\ gmutex' = t
                  /\ cache' = add_metadata_user(
                       cache, Entry(grids[v].filepath, Head(vdb_grids)[1]))
                  /\ grid' = grid @@
                       (NewId :> [entry |-> <<grids[v].filepath, Head(vdb_grids)[1]>>,
                                  is_loaded |-> FALSE])
                  /\ reads' = ReadsAfter(cache')
                  /\ evicted' = EvictedAfter(cache')
                  /\ hnd' = [hnd EXCEPT ![t] = NewId]
                  /\ loc' = [loc EXCEPT ![t] = Tail(vdb_grids)]
                  /\ pc' = [pc EXCEPT ![t] = "vload_emplaced"]
                  /\ UNCHANGED <<grids, op, cont, vol, ret, last_load>>
      /\ UNCHANGED <<src, volume>>

\* Variant: the new VolumeGrid is put at the front of the vector.
vload_emplaced_front(t) ==
  LET v == vol[t]
  IN  /\ pc[t] = "vload_emplaced"
      /\ gmutex = t
      /\ gmutex' = NoThread
      /\ grids' = [grids EXCEPT ![v].elems = <<hnd[t]>> \o @]
      /\ hnd' = [hnd EXCEPT ![t] = NoHandle]
      /\ pc' = [pc EXCEPT ![t] = "vload_emplace"]
      /\ UNCHANGED <<cache, grid, reads, evicted, op, cont, src, vol, loc, ret,
                     volume, last_load>>

\* add_metadata_user returns (the cache mutex is released) and emplace_back
\* completes: the new VolumeGrid is an element of the vector.
vload_emplaced(t) ==
  LET v == vol[t]
  IN  /\ pc[t] = "vload_emplaced"
      /\ gmutex = t
      /\ gmutex' = NoThread
      /\ grids' = [grids EXCEPT ![v].elems = Append(@, hnd[t])]
      /\ hnd' = [hnd EXCEPT ![t] = NoHandle]
      /\ pc' = [pc EXCEPT ![t] = "vload_emplace"]
      /\ UNCHANGED <<cache, grid, reads, evicted, op, cont, src, vol, loc, ret,
                     volume, last_load>>

\* void BKE_volume_unload(Volume *volume): if (grids.filepath[0] != '\0') ...
BKE_volume_unload(t, v) ==
  /\ Idle(t)
  /\ IF grids[v].filepath # EmptyPath
       THEN /\ op' = [op EXCEPT ![t] = "volume_unload"]
            /\ pc' = [pc EXCEPT ![t] = "vunload_clear"]
            /\ vol' = [vol EXCEPT ![t] = v]
            /\ UNCHANGED ret
       ELSE /\ ret' = Returned(t, <<>>)
            /\ UNCHANGED <<op, pc, vol>>
  /\ last_load' = Recorded(v, <<>>)
  /\ UNCHANGED <<cachevars, cont, hnd, src, loc, volume, grids>>

\* Variant: the collection's error_msg is not cleared.
vunload_clear_keep_error(t) ==
  LET v == vol[t]
      elems == grids[v].elems
  IN  /\ pc[t] = "vunload_clear"
      /\ IF elems = <<>>
           THEN /\ grids' = [grids EXCEPT ![v].filepath = EmptyPath]
                /\ last_load' = Recorded(v, <<>>)
                /\ IF op[t] = "eval"
                     THEN /\ pc' = [pc EXCEPT ![t] = "eval_set"]
                          /\ UNCHANGED <<op, cont, hnd, vol, loc, ret>>
                     ELSE VolumeReturn(t, <<>>)
                /\ UNCHANGED cachevars
           ELSE LET h == Head(elems)
                IN  /\ grids' = [grids EXCEPT ![v].elems = Tail(elems)]
                    /\ grid' = [x \in (DOMAIN grid) \ {h} |-> grid[x]]
                    /\ IF grid[h].entry = NULL
                         THEN UNCHANGED <<cache, gmutex, reads, evicted, pc, cont>>
                         ELSE /\ gmutex = NoThread
                              /\ gmutex' = t
                              /\ cache' = remove_user(cache, grid[h].entry, grid[h].is_loaded)
                              /\ reads' = ReadsAfter(cache')
                              /\ evicted' = EvictedAfter(cache')
                              /\ pc' = [pc EXCEPT ![t] = "unlock"]
                              /\ cont' = [cont EXCEPT ![t] = "vunload_clear"]
                    /\ UNCHANGED <<op, hnd, vol, loc, ret, last_load>>
      /\ UNCHANGED <<src, volume>>

\* Variant: the elements are dropped without remove_user.
vunload_clear_no_release(t) ==
  LET v == vol[t]
      elems == grids[v].elems
  IN  /\ pc[t] = "vunload_clear"
      /\ IF elems = <<>>
           THEN /\ grids' = [grids EXCEPT ![v].error_msg = "",
                                          ![v].filepath = EmptyPath]
                /\ last_load' = Recorded(v, <<>>)
                /\ IF op[t] = "eval"
                     THEN /\ pc' = [pc EXCEPT ![t] = "eval_set"]
                          /\ UNCHANGED <<op, cont, hnd, vol, loc, ret>>
                     ELSE VolumeReturn(t, <<>>)
                /\ UNCHANGED cachevars
           ELSE LET h == Head(elems)
                IN  /\ grids' = [grids EXCEPT ![v].elems = Tail(elems)]
                    /\ grid' = [x \in (DOMAIN grid) \ {h} |-> grid[x]]
                    /\ IF grid[h].entry = NULL
                         THEN UNCHANGED <<cache, gmutex, reads, evicted, pc, cont>>
                         ELSE /\ gmutex = NoThread
                              /\ gmutex' = t
                              /\ cache' = cache
                              /\ reads' = ReadsAfter(cache')
                              /\ evicted' = EvictedAfter(cache')
                              /\ pc' = [pc EXCEPT ![t] = "unlock"]
                              /\ cont' = [cont EXCEPT ![t] = "vunload_clear"]
                    /\ UNCHANGED <<op, hnd, vol, loc, ret, last_load>>
      /\ UNCHANGED <<src, volume>>

\* grids.clear() destroys the elements one by one (~VolumeGrid, that is
\* remove_user); then grids.error_msg.clear(); grids.filepath[0] = '\0'.
\* BKE_volume_eval_geometry goes on after the call.
vunload_clear(t) ==
  LET v == vol[t]
      elems == grids[v].elems
  IN  /\ pc[t] = "vunload_clear"
      /\ IF elems = <<>>
           THEN /\ grids' = [grids EXCEPT ![v].error_msg = "",
                                          ![v].filepath = EmptyPath]
                /\ last_load' = Recorded(v, <<>>)
                /\ IF op[t] = "eval"
                     THEN /\ pc' = [pc EXCEPT ![t] = "eval_set"]
                          /\ UNCHANGED <<op, cont, hnd, vol, loc, ret>>
                     ELSE VolumeReturn(t, <<>>)
                /\ UNCHANGED cachevars
           ELSE LET h == Head(elems)
                IN  /\ grids' = [grids EXCEPT ![v].elems = Tail(elems)]
                    /\ grid' = [x \in (DOMAIN grid) \ {h} |-> grid[x]]
                    /\ IF grid[h].entry = NULL
                         THEN UNCHANGED <<cache, gmutex, reads, evicted, pc, cont>>
                         ELSE /\ gmutex = NoThread
                              /\ gmutex' = t
                              /\ cache' = remove_user(cache, grid[h].entry, grid[h].is_loaded)
                              /\ reads' = ReadsAfter(cache')
                              /\ evicted' = EvictedAfter(cache')
                              /\ pc' = [pc EXCEPT ![t] = "unlock"]
                              /\ cont' = [cont EXCEPT ![t] = "vunload_clear"]
                    /\ UNCHANGED <<op, hnd, vol, loc, ret, last_load>>
      /\ UNCHANGED <<src, volume>>

\* bool BKE_volume_grid_load(Volume *volume, VolumeGrid *grid), the grid being
\* element i of the volume: grid->load(volume_name, grids.filepath); when
\* load() returns at once the error message is tested in the same step.
BKE_volume_grid_load(t, v, i) ==
  /\ Idle(t)
  /\ i \in DOMAIN grids[v].elems
  /\ LET h == grids[v].elems[i]
     IN  /\ Usable(h)
         /\ IF grid[h].is_loaded \/ grid[h].entry = NULL
              THEN /\ IF error_message(h) # NULL
                        THEN /\ grids' = [grids EXCEPT ![v].error_msg = error_message(h)[1]]
                             /\ ret' = Returned(t, <<FALSE>>)
                        ELSE /\ ret' = Returned(t, <<TRUE>>)
                             /\ UNCHANGED grids
                   /\ UNCHANGED <<op, pc, hnd, vol>>
              ELSE /\ op' = [op EXCEPT ![t] = "load"]
                   /\ pc' = [pc EXCEPT ![t] = "load_lock"]
                   /\ hnd' = [hnd EXCEPT ![t] = h]
                   /\ vol' = [vol EXCEPT ![t] = v]
                   /\ UNCHANGED <<grids, ret>>
  /\ UNCHANGED <<cachevars, cont, src, loc, volume, last_load>>

\* const char *error_msg = grid->error_message();
\* if (error_msg) { grids.error_msg = error_msg; return false; } return true;
gload_error(t) ==
  LET v == vol[t]
      h == hnd[t]
  IN  /\ pc[t] = "gload_error"
      /\ IF error_message(h) # NULL
           THEN /\ grids' = [grids EXCEPT ![v].error_msg = error_message(h)[1]]
                /\ VolumeReturn(t, <<FALSE>>)
           ELSE /\ VolumeReturn(t, <<TRUE>>)
                /\ UNCHANGED grids
      /\ UNCHANGED <<cachevars, src, volume, last_load>>

\* void BKE_volume_grid_unload(Volume *volume, VolumeGrid *grid):
\* grid->unload(volume_name).
BKE_volume_grid_unload(t, v, i) ==
  /\ i \in DOMAIN grids[v].elems
  /\ VolumeGrid_unload(t, grids[v].elems[i])

\* void BKE_volume_eval_geometry(depsgraph, volume) for the copy-on-write
\* volume, whose original is DEG_get_original_id(&volume->id); active is
\* DEG_is_active(depsgraph).
\*   int frame = volume_sequence_frame(depsgraph, volume);
\*   if (frame != volume->runtime.frame) { BKE_volume_unload(volume); ... }
BKE_volume_eval_geometry(t, scene_frame, active) ==
  LET v == "cow"
  IN  /\ Idle(t)
      /\ \E result \in volume_sequence_frame_results(scene_frame, volume[v]) :
           IF result = SIGFPE
             THEN /\ op' = [op EXCEPT ![t] = "eval"]
                  /\ pc' = [pc EXCEPT ![t] = "SIGFPE"]
                  /\ vol' = [vol EXCEPT ![t] = v]
                  /\ UNCHANGED <<loc, last_load, volume>>
             ELSE IF result[1] # volume[v].frame
               THEN /\ op' = [op EXCEPT ![t] = "eval"]
                    /\ pc' = [pc EXCEPT ![t] =
                         IF grids[v].filepath # EmptyPath
                           THEN "vunload_clear" ELSE "eval_set"]
                    /\ vol' = [vol EXCEPT ![t] = v]
                    /\ loc' = [loc EXCEPT ![t] = <<result[1], active, scene_frame>>]
                    /\ last_load' = Recorded(v, <<>>)
                    /\ UNCHANGED volume
               ELSE /\ volume' = IF active
                                   THEN [volume EXCEPT !["orig"].frame = volume[v].frame]
                                   ELSE volume
                    /\ UNCHANGED <<op, pc, vol, loc, last_load>>
      /\ UNCHANGED <<cachevars, cont, hnd, src, ret, grids>>

\* volume->runtime.frame = frame; and the flush back to the original:
\* if (DEG_is_active(depsgraph)) volume_orig->runtime.frame = volume->runtime.frame;
eval_set(t) ==
  LET v == vol[t]
      frame == loc[t][1]
      active == loc[t][2]
  IN  /\ pc[t] = "eval_set"
      /\ volume' = [x \in Volumes |->
           IF x = v \/ (active /\ x = "orig")
             THEN [volume[x] EXCEPT !.frame = frame]
             ELSE volume[x]]
      /\ VolumeReturn(t, <<>>)
      /\ UNCHANGED <<cachevars, src, grids, last_load>>

\* VolumeGridVector(): filepath[0] = '\0'.
VolumeGridVector ==
  [filepath |-> EmptyPath, error_msg |-> "", elems |-> <<>>, mutex |-> NoThread]

\* BKE_volume_init and the sequence settings of the datablock; runtime.frame
\* starts as 0.
Volume(filepath) ==
  [filepath |-> filepath, is_sequence |-> TRUE, sequence_mode |-> "CLIP",
   frame_start |-> 1, frame_offset |-> 0, frame_duration |-> 2, frame |-> 0]

Init ==
  /\ cache = <<>>
  /\ gmutex = NoThread
  /\ grid = <<>>
  /\ op = [t \in Threads |-> "none"]
  /\ pc = [t \in Threads |-> "idle"]
  /\ cont = [t \in Threads |-> "idle"]
  /\ hnd = [t \in Threads |-> NoHandle]
  /\ src = [t \in Threads |-> NoHandle]
  /\ reads = [k \in Keys |-> 0]
  /\ evicted = <<>>
  /\ volume = [v \in Volumes |-> Volume(EmptyPath)]
  /\ grids = [v \in Volumes |-> VolumeGridVector]
  /\ vol = [t \in Threads |-> NoVolume]
  /\ loc = [t \in Threads |-> <<>>]
  /\ ret = [t \in Threads |-> <<>>]
  /\ last_load = [v \in Volumes |-> <<>>]

Next ==
  \E t \in Threads :
    \/ \E k \in HandleKeys : VolumeGrid_Entry(t, k)
    \/ VolumeGrid_Vdb(t)
    \/ \E h \in HandleIds : VolumeGrid_Copy(t, h)
    \/ VolumeGrid_Copy_user(t)
    \/ \E h \in HandleIds : VolumeGrid_Destroy(t, h)
    \/ \E h \in HandleIds : VolumeGrid_load(t, h)
    \/ load_lock(t)
    \/ load_change(t)
    \/ load_check(t)
    \/ load_read(t)
    \/ load_publish(t)
    \/ load_done(t)
    \/ \E h \in HandleIds : VolumeGrid_unload(t, h)
    \/ unload_lock(t)
    \/ unload_change(t)
    \/ unload_done(t)
    \/ CacheUnlock(t)

Spec == Init /\ [][Next]_vars

\* The volume-level specification: the original datablock and its
\* copy-on-write copy have the same file path, and one thread calls the
\* BKE_volume_* functions on them.
VolumeThreads == {"t1"}

InitVolume ==
  /\ cache = <<>>
  /\ gmutex = NoThread
  /\ grid = <<>>
  /\ op = [t \in Threads |-> "none"]
  /\ pc = [t \in Threads |-> "idle"]
  /\ cont = [t \in Threads |-> "idle"]
  /\ hnd = [t \in Threads |-> NoHandle]
  /\ src = [t \in Threads |-> NoHandle]
  /\ reads = [k \in Keys |-> 0]
  /\ evicted = <<>>
  /\ \E filepath \in {EmptyPath, VolumePath} :
       volume = [v \in Volumes |-> Volume(filepath)]
  /\ grids = [v \in Volumes |-> VolumeGridVector]
  /\ vol = [t \in Threads |-> NoVolume]
  /\ loc = [t \in Threads |-> <<>>]
  /\ ret = [t \in Threads |-> <<>>]
  /\ last_load = [v \in Volumes |-> <<>>]

NextVolume ==
  \E t \in VolumeThreads :
    \/ \E v \in Volumes : BKE_volume_load(t, v)
    \/ vload_lock(t)
    \/ vload_exists(t)
    \/ vload_open(t)
    \/ vload_emplace(t)
    \/ vload_emplaced(t)
    \/ \E v \in Volumes : BKE_volume_unload(t, v)
    \/ vunload_clear(t)
    \/ \E v \in Volumes : \E i \in HandleIds : BKE_volume_grid_load(t, v, i)
    \/ load_lock(t)
    \/ load_change(t)
    \/ load_check(t)
    \/ load_read(t)
    \/ load_publish(t)
    \/ load_done(t)
    \/ gload_error(t)
    \/ \E v \in Volumes : \E i \in HandleIds : BKE_volume_grid_unload(t, v, i)
    \/ unload_lock(t)
    \/ unload_change(t)
    \/ unload_done(t)
    \/ \E scene_frame \in SceneFrames : \E active \in BOOLEAN :
         BKE_volume_eval_geometry(t, scene_frame, active)
    \/ eval_set(t)
    \/ CacheUnlock(t)

SpecVolume == InitVolume /\ [][NextVolume]_vars

\* The concurrent specification: two threads call the BKE_volume_* functions
\* and copy and destroy VolumeGrid objects, so that all three mutexes
\* (GLOBAL_CACHE.mutex, Entry::mutex, VolumeGridVector::mutex) are contended.
\* It keeps no history of the values returned.
\* The callers keep the contract of the code that takes no lock:
\* BKE_volume_unload runs on a volume no other thread is using, and the
\* grids of a volume are used once BKE_volume_load has returned.
Elems(v) == {grids[v].elems[i] : i \in DOMAIN grids[v].elems}

\* No thread is inside a call on volume v or on one of its grids.
Quiet(v) ==
  \A u \in Threads : vol[u] # v /\ hnd[u] \notin Elems(v) /\ src[u] \notin Elems(v)

\* The grids of volume v can be used: no thread is inside BKE_volume_unload or
\* inside the locked part of BKE_volume_load of v.
Stable(v) ==
  /\ grids[v].mutex = NoThread
  /\ \A u \in Threads : ~(op[u] = "volume_unload" /\ vol[u] = v)

InitLocks ==
  /\ cache = <<>>
  /\ gmutex = NoThread
  /\ grid = <<>>
  /\ op = [t \in Threads |-> "none"]
  /\ pc = [t \in Threads |-> "idle"]
  /\ cont = [t \in Threads |-> "idle"]
  /\ hnd = [t \in Threads |-> NoHandle]
  /\ src = [t \in Threads |-> NoHandle]
  /\ reads = [k \in Keys |-> 0]
  /\ evicted = <<>>
  /\ volume = [v \in Volumes |-> Volume(VolumePath)]
  /\ grids = [v \in Volumes |-> VolumeGridVector]
  /\ vol = [t \in Threads |-> NoVolume]
  /\ loc = [t \in Threads |-> <<>>]
  /\ ret = <<>>
  /\ last_load = <<>>

\* The steps of thread t inside a call: everything but the entry into a call.
ThreadStep(t) ==
  \/ vload_lock(t)
  \/ vload_exists(t)
  \/ vload_open(t)
  \/ vload_emplace(t)
  \/ vload_emplaced(t)
  \/ vunload_clear(t)
  \/ load_lock(t)
  \/ load_change(t)
  \/ load_check(t)
  \/ load_read(t)
  \/ load_publish(t)
  \/ load_done(t)
  \/ gload_error(t)
  \/ unload_lock(t)
  \/ unload_change(t)
  \/ unload_done(t)
  \/ VolumeGrid_Copy_user(t)
  \/ CacheUnlock(t)

\* The volumes the threads of the concurrent specification work on.
LockVolumes == {"orig"}

\* The entry of thread t into a call.
ThreadCall(t) ==
  \/ \E v \in LockVolumes :
       /\ \A u \in Threads : ~(op[u] = "volume_unload" /\ vol[u] = v)
       /\ BKE_volume_load(t, v)
  \/ \E v \in LockVolumes : Quiet(v) /\ BKE_volume_unload(t, v)
  \/ \E v \in LockVolumes : \E i \in HandleIds :
       Stable(v) /\ BKE_volume_grid_load(t, v, i)
  \/ \E v \in LockVolumes : \E i \in HandleIds :
       Stable(v) /\ BKE_volume_grid_unload(t, v, i)
  \/ \E v \in LockVolumes : \E i \in DOMAIN grids[v].elems :
       Stable(v) /\ VolumeGrid_Copy(t, grids[v].elems[i])
  \/ \E h \in HandleIds :
       /\ \A v \in Volumes : h \notin Elems(v)
       /\ \/ VolumeGrid_Destroy(t, h)
          \/ VolumeGrid_load(t, h)
          \/ VolumeGrid_unload(t, h)

NextLocks == \E t \in Threads : ThreadCall(t) \/ ThreadStep(t)

\* The scheduler is fair to every thread and a mutex that is released again
\* and again is eventually given to each thread that waits for it.
FairLocks == \A t \in Threads : SF_vars(ThreadStep(t))

SpecLocks == InitLocks /\ [][NextLocks]_vars /\ FairLocks

(* ------------------------------ properties ---------------------------- *)

Users(e) == e.num_metadata_users + e.num_tree_users

\* The file-backed VolumeGrid objects that point to the entry with key k.
HandlesOf(k) == {h \in DOMAIN grid : grid[h].entry = k}

\* Thread t is inside load() / unload() of a handle of entry k.
Loading(t, k) == op[t] = "load" /\ grid[hnd[t]].entry = k
Unloading(t, k) == op[t] = "unload" /\ grid[hnd[t]].entry = k

\* Thread t returns from load() in this step (the early return of an already
\* loaded handle changes nothing and is a stuttering step).
LoadReturns(t) == op[t] = "load" /\ op'[t] = "none"

\* C1: at-most-one-load.  While an entry keeps a tree user its tree is read
\* from the file at most once, however many threads call load() on handles
\* of that entry; a load() call returns only with the handle loaded, the
\* entry loaded and exactly one read done; and the error_msg of a loaded
\* entry does not change while it stays loaded, so all callers see the same.
C1_Step ==
  /\ \A k \in Keys : reads'[k] <= 1
  /\ \A t \in Threads :
       LoadReturns(t) =>
         LET h == hnd[t]
             k == grid[h].entry
         IN  /\ grid'[h].is_loaded
             /\ cache'[k].is_loaded
             /\ reads'[k] = 1
  /\ \A k \in DOMAIN cache :
       (cache[k].is_loaded /\ k \in DOMAIN cache' /\ cache'[k].is_loaded)
         => cache'[k].error_msg = cache[k].error_msg

\* C1 (at-most-one-load) holds at every step.
C1_AtMostOneLoad == [][C1_Step]_vars

\* Two threads are inside load() of two handles of one entry: one has done
\* the read, the other waits for the entry's mutex.
C1_Witness ==
  \E t1, t2 \in Threads : \E k \in DOMAIN cache :
    /\ t1 # t2 /\ hnd[t1] # hnd[t2]
    /\ Loading(t1, k) /\ pc[t1] = "load_done"
    /\ Loading(t2, k) /\ pc[t2] = "load_lock"
    /\ reads[k] = 1

\* C2: reference-count eviction.  Every entry in the cache has at least one
\* user and every file-backed handle points to an entry in the cache; an
\* entry leaves the cache exactly in the step whose counter update brings
\* the sum of its counters to 0.
C2_Step ==
  /\ \A k \in DOMAIN cache' : Users(cache'[k]) >= 1
  /\ \A h \in DOMAIN grid' : grid'[h].entry # NULL => grid'[h].entry \in DOMAIN cache'
  /\ \A k \in DOMAIN cache :
       LET removing == \E t \in Threads : \E h \in HandlesOf(k) :
                         op[t] = "none" /\ op'[t] = "dtor" /\ h \notin DOMAIN grid'
       IN  k \notin DOMAIN cache' <=> (removing /\ Users(cache[k]) = 1)

\* C2 (a key is in the cache iff its entry has a user) holds at every step.
C2_PresentIffUsers == [][C2_Step]_vars

\* The last user of an entry has just been removed and the entry erased.
C2_Witness ==
  \E t \in Threads : \E k \in Keys :
    /\ op[t] = "dtor" /\ pc[t] = "unlock"
    /\ k \notin DOMAIN cache
    /\ Evicted(k) # "never"

\* C3: tree-shrink-on-demotion.  An entry in the cache without tree users is
\* not loaded and its grid has an empty tree.
C3_TreeShrink ==
  \A k \in DOMAIN cache :
    cache[k].num_tree_users = 0 =>
      (~cache[k].is_loaded /\ cache[k].tree = "empty")

\* unload() has just demoted the last tree user of an entry that keeps
\* metadata users: the entry is still in the cache, unloaded.
C3_Witness ==
  \E t \in Threads : \E k \in DOMAIN cache :
    /\ Unloading(t, k) /\ pc[t] = "unload_done"
    /\ grid[hnd[t]].is_loaded
    /\ cache[k].num_tree_users = 0 /\ cache[k].num_metadata_users >= 2
    /\ ~cache[k].is_loaded /\ cache[k].tree = "empty"

\* C4: no stale data across eviction.  When no handle points to the entry of
\* a key, the next handle constructed for that key gets a fresh entry: not
\* loaded, empty tree, no error, one metadata user and no tree user.
C4_Step ==
  \A t \in Threads : \A k \in Keys :
    (/\ HandlesOf(k) = {}
     /\ op[t] = "none" /\ op'[t] = "ctor"
     /\ grid'[hnd'[t]].entry = k)
      => /\ k \in DOMAIN cache'
         /\ cache'[k] = [Entry(k[1], k[2]) EXCEPT !.num_metadata_users = 1]

\* C4 (no stale data across eviction) holds at every step.
C4_FreshAfterEviction == [][C4_Step]_vars

\* An entry that had a load error was erased, and a handle has just been
\* constructed for its key.
C4_Witness ==
  \E t \in Threads : \E k \in DOMAIN cache :
    /\ op[t] = "ctor" /\ grid[hnd[t]].entry = k
    /\ Evicted(k) = "error"
    /\ cache[k].num_metadata_users = 1 /\ cache[k].error_msg = ""

\* C5: duplicate grid names.  When BKE_volume_load returns having found two
\* or more grids of the same name in the file, the handles it created all
\* point to the one entry of (file, name), that entry is in the cache with a
\* metadata user for each of them, and its users are exactly the handles
\* that point to it; and when BKE_volume_unload destroys one of the handles
\* while another handle of the collection points to the same entry, the
\* entry stays in the cache with one user less.
SameName(h1, h2) == grid[h1].entry[2] = grid[h2].entry[2]

C5_Step ==
  \A t \in Threads :
    /\ (pc[t] = "vload_emplace" /\ pc'[t] = "idle")
         => LET v == vol[t]
                elems == grids'[v].elems
            IN  \A i, j \in DOMAIN elems :
                  (i # j /\ SameName(elems[i], elems[j]))
                    => LET k == grid'[elems[i]].entry
                       IN  /\ grid'[elems[j]].entry = k
                           /\ k = <<grids'[v].filepath, k[2]>>
                           /\ k \in DOMAIN cache'
                           /\ cache'[k].num_metadata_users >= Len(elems)
                           /\ Users(cache'[k])
                                = Cardinality({h \in DOMAIN grid' : grid'[h].entry = k})
    /\ (pc[t] = "vunload_clear" /\ grids[vol[t]].elems # <<>>)
         => LET elems == grids[vol[t]].elems
                k == grid[Head(elems)].entry
            IN  (\E i \in DOMAIN Tail(elems) : grid[Tail(elems)[i]].entry = k)
                  => /\ k \in DOMAIN cache'
                     /\ Users(cache'[k]) = Users(cache[k]) - 1
                     /\ \A i \in DOMAIN Tail(elems) :
                          /\ Tail(elems)[i] \in DOMAIN grid'
                          /\ grid'[Tail(elems)[i]].entry = grid[Tail(elems)[i]].entry

\* C5 (duplicate grid names share one entry) holds at every step.
C5_DuplicateNamesShareEntry == [][C5_Step]_vars

\* BKE_volume_unload has destroyed the first of two handles of a collection
\* that pointed to the same entry: the entry is still there for the second.
C5_Witness ==
  \E t \in Threads :
    /\ pc[t] = "unlock" /\ cont[t] = "vunload_clear"
    /\ Len(grids[vol[t]].elems) = 1
    /\ LET k == grid[grids[vol[t]].elems[1]].entry
       IN  /\ k \in DOMAIN cache
           /\ Users(cache[k]) = 1
           /\ Evicted(k) = "never"

\* C6: handle copy semantics.  The copy gets the entry and the is_loaded of
\* the source, and copy_user adds one to num_tree_users if the source is
\* loaded and to num_metadata_users otherwise, changing nothing else of the
\* entry.
C6_Step ==
  \A t \in Threads :
    /\ (op[t] = "none" /\ op'[t] = "copy") =>
         /\ grid'[hnd'[t]] = grid[src'[t]]
         /\ cache' = cache
    /\ (op[t] = "copy" /\ pc[t] = "copy_user" /\ pc'[t] = "unlock") =>
         LET h == hnd[t]
             k == grid[src[t]].entry
         IN  /\ grid' = grid
             /\ grid[h].entry = k
             /\ grid[h].is_loaded = grid[src[t]].is_loaded
             /\ cache' = [cache EXCEPT ![k] =
                  IF grid[src[t]].is_loaded
                    THEN [@ EXCEPT !.num_tree_users = @ + 1]
                    ELSE [@ EXCEPT !.num_metadata_users = @ + 1]]

\* C6 (handle copy semantics) holds at every step.
C6_CopySemantics == [][C6_Step]_vars

\* A loaded handle has just been copied: its entry has two tree users.
C6_Witness ==
  \E t \in Threads :
    /\ op[t] = "copy" /\ pc[t] = "unlock"
    /\ grid[hnd[t]].is_loaded /\ grid[src[t]].is_loaded
    /\ cache[grid[hnd[t]].entry].num_tree_users = 2

\* Thread t is in the part of BKE_volume_load(v) that tests the file for
\* existence, opens it, enumerates its grids and creates the handles.
InLoadBody(t, v) ==
  /\ vol[t] = v
  /\ pc[t] \in {"vload_exists", "vload_exists2", "vload_open",
                "vload_emplace", "vload_emplaced"}

\* BKE_volume_load(v) has returned and BKE_volume_unload(v) has not been
\* called since.
LoadReturned(v) == last_load[v] # <<>>

\* The collection's error_msg and the volume's frame are what they were when
\* the last BKE_volume_load(v) returned.
SameAsAtLoad(v) ==
  /\ grids[v].error_msg = last_load[v][1].error_msg
  /\ volume[v].frame = last_load[v][1].frame

\* The handles of the collection and the cache are left as they are.
NoHandleNoCounter(v) ==
  /\ grids'[v].elems = grids[v].elems
  /\ grid' = grid
  /\ cache' = cache

\* C7 as the specification states it: once BKE_volume_load(v) has returned,
\* and until BKE_volume_unload(v) is called, no call of BKE_volume_load(v)
\* tests, opens or enumerates the file, none adds a handle or changes a
\* cache counter, and each returns the value the call before it returned.
C7_StepOriginal ==
  \A v \in Volumes :
    LoadReturned(v) =>
      /\ \A t \in Threads : ~InLoadBody(t, v)'
      /\ (LoadReturned(v)' /\ last_load'[v] # last_load[v])
           => /\ last_load'[v][1].ret = last_load[v][1].ret
              /\ NoHandleNoCounter(v)

\* C7 as stated, at every step.
C7_IdempotentLoadOriginal == [][C7_StepOriginal]_vars

\* C7, amended: once BKE_volume_load(v) has returned, and until
\* BKE_volume_unload(v) is called, a call of BKE_volume_load(v) returns true
\* if and only if the volume's frame is VOLUME_FRAME_NONE or the collection's
\* error_msg is empty when it returns; and a call made while the error_msg
\* and the frame are what they were when the call before returned does not
\* test, open or enumerate the file, adds no handle, changes no cache
\* counter and returns the value the call before returned.
C7_Step ==
  \A v \in Volumes :
    LoadReturned(v) =>
      /\ (LoadReturned(v)' /\ last_load'[v] # last_load[v])
           => /\ last_load'[v][1].again
              /\ last_load'[v][1].ret
                   = (volume'[v].frame = VOLUME_FRAME_NONE \/ grids'[v].error_msg = "")
      /\ SameAsAtLoad(v)
           => /\ \A t \in Threads : ~InLoadBody(t, v)
              /\ (LoadReturned(v)' /\ last_load'[v] # last_load[v])
                   => /\ last_load'[v][1].ret = last_load[v][1].ret
                      /\ NoHandleNoCounter(v)

\* C7 (idempotent collection load, in an unchanged state) holds at every step.
C7_IdempotentLoad == [][C7_Step]_vars

\* A second BKE_volume_load has returned for a collection with handles, some
\* of them loaded, with the value of the first.
C7_Witness ==
  \E v \in Volumes : \E t \in Threads :
    /\ Idle(t)
    /\ LoadReturned(v) /\ last_load[v][1].again /\ SameAsAtLoad(v)
    /\ ret[t] = <<last_load[v][1].ret>>
    /\ ret[t] = <<TRUE>>
    /\ \E i \in DOMAIN grids[v].elems : grid[grids[v].elems[i]].is_loaded

\* C8: not-found short-circuit.  When the existence test of BKE_volume_load
\* fails the call returns false at once, with the collection's error_msg the
\* file name without its directory followed by " not found", no handle in the
\* collection, the cache and the handles as they were, and the file path
\* recorded, so that the volume counts as loaded; and a call that records
\* "not found" never goes on to open the file.
NotFound(v) == grids[v].error_msg = grids[v].filepath[Len(grids[v].filepath)] \o " not found"

C8_Step ==
  \A t \in Threads :
    \A v \in Volumes :
      /\ (InLoadBody(t, v) /\ pc[t] \in {"vload_exists", "vload_exists2"}
             /\ pc'[t] = "idle")
           => /\ ret'[t] = <<FALSE>>
              /\ NotFound(v)'
              /\ grids'[v].filepath = volume_filepath_get(v)
              /\ grids'[v].filepath # EmptyPath
              /\ BKE_volume_is_loaded(v)'
              /\ grids'[v].elems = <<>>
              /\ grid' = grid
              /\ cache' = cache
      /\ ~(InLoadBody(t, v) /\ NotFound(v))'

\* C8 (not-found short-circuit) holds at every step.
C8_NotFoundShortCircuit == [][C8_Step]_vars

\* BKE_volume_load has returned false for a file that does not exist.
C8_Witness ==
  \E v \in Volumes : \E t \in Threads :
    /\ Idle(t) /\ ret[t] = <<FALSE>>
    /\ grids[v].error_msg = "a_0.vdb not found"
    /\ grids[v].filepath = <<"dir", "a_0.vdb">>
    /\ grids[v].elems = <<>>
    /\ LoadReturned(v) /\ ~last_load[v][1].again

\* C9: a failed collection load is terminal until unload.  Once
\* BKE_volume_load(v) has returned false, and until BKE_volume_unload(v) is
\* called, no call of BKE_volume_load(v) tests, opens or enumerates the file,
\* and each returns false.
C9_Step ==
  \A v \in Volumes :
    (LoadReturned(v) /\ last_load[v][1].ret = FALSE) =>
      /\ \A t \in Threads : ~InLoadBody(t, v)'
      /\ LoadReturned(v)' => last_load'[v][1].ret = FALSE

\* C9 (a failed collection load is terminal until unload), at every step.
C9_FailedLoadTerminal == [][C9_Step]_vars

\* The one tree read done for the entry since it last got a tree user failed:
\* no tree was attached.
ReadFailed(k) == reads[k] = 1 /\ cache[k].tree = "empty"

\* C10: a failed tree read is a cached terminal state.  After a failed read
\* the entry holds the error text and is published as loaded (the step after
\* the read), the handle that read is loaded when its load() returns, no
\* second read is done while the entry keeps a tree user, and every loaded
\* handle of the entry reports the text.
C10_Step ==
  /\ \A k \in DOMAIN cache' :
       (reads'[k] = 1 /\ cache'[k].tree = "empty") =>
         /\ cache'[k].error_msg = "IoError"
         /\ \/ cache'[k].is_loaded
            \/ \E t \in Threads : pc'[t] = "load_publish" /\ grid'[hnd'[t]].entry = k
         /\ \A h \in DOMAIN grid' :
              (grid'[h].entry = k /\ grid'[h].is_loaded)
                => error_message(h)' = <<"IoError">>
  /\ \A k \in DOMAIN cache :
       (ReadFailed(k) /\ k \in DOMAIN cache' /\ cache'[k].num_tree_users > 0) =>
         /\ reads'[k] = 1
         /\ cache'[k].tree = "empty"
  /\ \A t \in Threads :
       (LoadReturns(t) /\ ReadFailed(grid[hnd[t]].entry)) =>
         /\ grid'[hnd[t]].is_loaded
         /\ cache'[grid[hnd[t]].entry].is_loaded

\* C10 (a failed tree read is a cached terminal state) holds at every step.
C10_FailedReadTerminal == [][C10_Step]_vars

\* After a failed read, a second handle of the entry has been loaded without
\* a read: both handles are loaded and the entry holds the error text.
C10_Witness ==
  \E k \in DOMAIN cache : \E h1, h2 \in HandlesOf(k) :
    /\ h1 # h2 /\ grid[h1].is_loaded /\ grid[h2].is_loaded
    /\ ReadFailed(k) /\ cache[k].is_loaded
    /\ \A t \in Threads : op[t] = "none"

\* C11: an entry's error_msg reflects the most recent tree read.  An entry
\* that is loaded has a non-empty error_msg if and only if the one read done
\* since it last got a tree user failed (no tree was attached).
C11_ErrorReflectsLastRead ==
  \A k \in DOMAIN cache :
    cache[k].is_loaded => (cache[k].error_msg # "" <=> ReadFailed(k))

\* Thread t is inside load() of a handle of entry k and has been promoted to
\* tree user: change_to_tree_user() has run and load() has not returned.
Promoted(t, k) ==
  /\ op[t] = "load"
  /\ grid[hnd[t]].entry = k
  /\ \/ pc[t] = "unlock" /\ cont[t] = "load_check"
     \/ pc[t] \in {"load_check", "load_read", "load_publish", "load_done"}

\* The handles of entry k of one class that the counters account for: all
\* but a copy whose copy_user() has not run yet.
HandlesOfClass(k, tree_user) ==
  {h \in HandlesOf(k) :
     /\ grid[h].is_loaded = tree_user
     /\ ~\E t \in Threads : pc[t] = "copy_user" /\ hnd[t] = h}

\* C12: destruction and unload() of other handles are safe while a handle
\* is being loaded.  From the promotion of a handle B to tree user until
\* B's load() returns, no step of any thread erases B's entry, clears its
\* tree or resets its is_loaded; and when B's load() returns, B is loaded,
\* the entry is in the cache with is_loaded true, and each counter equals
\* the number of handles of its class that are left.
C12_Step ==
  \A t \in Threads : \A k \in DOMAIN cache :
    /\ Promoted(t, k) =>
         /\ k \in DOMAIN cache'
         /\ cache'[k].num_tree_users >= 1
         /\ cache[k].tree = "tree" => cache'[k].tree = "tree"
         /\ cache[k].is_loaded => cache'[k].is_loaded
    /\ (LoadReturns(t) /\ grid[hnd[t]].entry = k) =>
         /\ grid'[hnd[t]].is_loaded
         /\ k \in DOMAIN cache' /\ cache'[k].is_loaded
         /\ cache'[k].num_tree_users = Cardinality(HandlesOfClass(k, TRUE)')
         /\ cache'[k].num_metadata_users = Cardinality(HandlesOfClass(k, FALSE)')

\* C12 (load is safe against concurrent destruction) holds at every step.
C12_DestroySafeDuringLoad == [][C12_Step]_vars

\* Handle B has been promoted inside load() and the handle that had loaded
\* the entry has been destroyed by the other thread since: B's unit is the
\* only tree user left and the entry is still loaded.
C12_Witness ==
  \E t1, t2 \in Threads : \E k \in DOMAIN cache :
    /\ t1 # t2
    /\ Promoted(t1, k) /\ pc[t1] = "load_check"
    /\ ~grid[hnd[t1]].is_loaded
    /\ op[t2] = "dtor" /\ pc[t2] = "unlock"
    /\ cache[k].is_loaded /\ cache[k].num_tree_users = 1

\* Thread t waits for an entry's mutex or for a collection's mutex.
WaitsForLock(t) == pc[t] \in {"load_lock", "unload_lock", "vload_lock"}

\* Thread t acquires an entry's mutex or a collection's mutex in this step.
AcquiresLock(t) ==
  \/ \E k \in DOMAIN cache \cap DOMAIN cache' :
       cache[k].mutex # t /\ cache'[k].mutex = t
  \/ \E v \in Volumes : grids[v].mutex # t /\ grids'[v].mutex = t

\* The global lock is the last one a thread acquires: the thread that holds
\* it neither waits for nor acquires another lock.
C13_LockOrderStep ==
  \A t \in Threads :
    /\ (gmutex = t \/ gmutex' = t) => ~WaitsForLock(t) /\ ~WaitsForLock(t)'
    /\ AcquiresLock(t) => gmutex # t /\ gmutex' # t

\* Some thread inside a call can take a step.
C13_NoDeadlock ==
  (\E t \in Threads : ~Idle(t)) => \E t \in Threads : ENABLED ThreadStep(t)

MutatesCache ==
  \/ DOMAIN cache' # DOMAIN cache
  \/ \E k \in DOMAIN cache \cap DOMAIN cache' :
       \/ cache'[k].num_metadata_users # cache[k].num_metadata_users
       \/ cache'[k].num_tree_users # cache[k].num_tree_users

\* Thread t executes a file I/O step: BLI_exists, file.open() with
\* readAllGridMetadata(), or file.open() with readGrid().
IoStep(t) ==
  /\ pc[t] \in {"vload_exists", "vload_exists2", "vload_open", "load_read"}
  /\ pc'[t] # pc[t]

\* C14: global lock discipline.  A step that changes the key set of the cache
\* or a counter of an entry is the step of a cache member function, which
\* takes the global lock (free before the step) and still holds it after the
\* change; and no thread executes a file I/O step (existence test, file
\* open, metadata enumeration, tree read) while it holds the global lock.
C14_Step ==
  /\ MutatesCache =>
       /\ gmutex = NoThread
       /\ gmutex' # NoThread
       /\ pc[gmutex'] # pc'[gmutex']
  /\ \A t \in Threads : IoStep(t) => gmutex # t /\ gmutex' # t

\* C14 (global lock discipline) holds at every step.
C14_GlobalLockDiscipline == [][C14_Step]_vars

\* One thread reads a tree from the file while the other thread is inside a
\* cache member function, holding the global lock after it changed a counter.
C14_Witness ==
  \E t1, t2 \in Threads :
    /\ t1 # t2
    /\ pc[t1] = "load_read"
    /\ gmutex = t2 /\ pc[t2] = "unlock" /\ op[t2] \in {"copy", "dtor"}

\* The locks thread t holds: the global lock, entries' mutexes, collections'
\* mutexes.
EntryLocks(t) == {k \in DOMAIN cache : cache[k].mutex = t}
CollectionLocks(t) == {v \in Volumes : grids[v].mutex = t}
LocksHeld(t) ==
  (IF gmutex = t THEN 1 ELSE 0)
    + Cardinality(EntryLocks(t)) + Cardinality(CollectionLocks(t))

AttachStep(k) ==
  /\ k \in DOMAIN cache /\ k \in DOMAIN cache'
  /\ cache[k].tree = "empty" /\ cache'[k].tree = "tree"

\* The step runs entry.grid->clear() on entry k: update_for_remove_user, called
\* after a counter of k was decremented, finds users left and no tree user.
ClearStep(k) ==
  /\ k \in DOMAIN cache /\ k \in DOMAIN cache'
  /\ \/ cache'[k].num_metadata_users < cache[k].num_metadata_users
     \/ cache'[k].num_tree_users < cache[k].num_tree_users
  /\ cache'[k].num_tree_users = 0

\* The thread that takes the step of a cache member function.
CacheCaller == gmutex'

\* C16 as stated: every step that attaches a tree to an entry's grid or
\* clears the entry's grid is taken by the thread that holds the entry's
\* mutex.
C16_StepOriginal ==
  \A k \in Keys :
    /\ AttachStep(k) => \E t \in Threads : cache[k].mutex = t /\ pc[t] = "load_read"
    /\ ClearStep(k) => CacheCaller \in Threads /\ cache[k].mutex = CacheCaller

C16_OnlyLockHolderMutatesTree == [][C16_StepOriginal]_vars

\* C16, amended: a tree is attached only by the thread that holds the entry's
\* mutex, inside load().  The clear of the eviction check is run by the
\* thread that holds the global lock, in a step that leaves the entry
\* without tree users and while no thread is between its promotion and its
\* return in load() of that entry; that thread holds the entry's mutex when
\* the clear comes from unload(), and holds no entry mutex when it comes
\* from the destruction of a handle.
C16_Step ==
  \A k \in Keys :
    /\ AttachStep(k) => \E t \in Threads : cache[k].mutex = t /\ pc[t] = "load_read"
    /\ ClearStep(k) =>
         /\ gmutex = NoThread /\ CacheCaller \in Threads
         /\ pc'[CacheCaller] = "unlock"
         /\ \A u \in Threads : ~Promoted(u, k)
         /\ op'[CacheCaller] = "unload" <=> cache[k].mutex = CacheCaller
         /\ op'[CacheCaller] \in {"unload", "dtor", "volume_unload", "eval"}

C16_TreeMutationGuarded == [][C16_Step]_vars

\* A destructor has just run the clear of the eviction check (the entry is
\* left with metadata users only) while the other thread, inside load(),
\* holds the entry's mutex.
C16_Witness ==
  \E t1, t2 \in Threads : \E k \in DOMAIN cache :
    /\ t1 # t2
    /\ op[t2] = "dtor" /\ pc[t2] = "unlock" /\ gmutex = t2
    /\ cache[k].num_tree_users = 0
    /\ cache[k].mutex = t1 /\ pc[t1] = "load_change" /\ Loading(t1, k)

\* C17: the is_loaded of an entry changes from false to true only in the
\* step of a handle's load() that follows the read attempt (whether the read
\* succeeded or failed), taken by the holder of the entry's mutex; it
\* changes from true to false only in the eviction check of the cache, in a
\* step that leaves the entry with num_tree_users = 0; no other step
\* changes it.
C17_Step ==
  \A k \in DOMAIN cache \cap DOMAIN cache' :
    /\ (~cache[k].is_loaded /\ cache'[k].is_loaded) =>
         \E t \in Threads :
           /\ Loading(t, k) /\ cache[k].mutex = t
           /\ pc[t] = "load_publish" /\ pc'[t] = "load_done"
           /\ reads[k] = 1
    /\ (cache[k].is_loaded /\ ~cache'[k].is_loaded) =>
         /\ ClearStep(k)
         /\ gmutex = NoThread /\ CacheCaller \in Threads
         /\ cache[k].num_tree_users = 1

\* C17 (the transitions of an entry's is_loaded) holds at every step.
C17_EntryLoadedTransitions == [][C17_Step]_vars

\* An entry has made both transitions: it was loaded by a read that failed,
\* reset by the eviction check, and has been set loaded again by a second
\* load() whose read succeeded.
C17_Witness ==
  \E t \in Threads : \E k \in DOMAIN cache :
    /\ Loading(t, k) /\ pc[t] = "load_done"
    /\ cache[k].is_loaded /\ cache[k].tree = "tree"
    /\ cache[k].error_msg = "IoError"

\* Handle h is inside its own unload(), between change_to_metadata_user()
\* and is_loaded = false.
Demoted(h) ==
  \E t \in Threads :
    /\ op[t] = "unload" /\ hnd[t] = h
    /\ \/ pc[t] = "unlock" /\ cont[t] = "unload_done"
       \/ pc[t] = "unload_done"

\* C18 as stated: in every reachable state a file-backed handle whose
\* is_loaded is true references an entry whose is_loaded is true, including
\* during unload() of that handle and for copies made of it.
C18_LoadedHandleLoadedEntry ==
  \A h \in DOMAIN grid :
    (grid[h].entry # NULL /\ grid[h].is_loaded) =>
      /\ grid[h].entry \in DOMAIN cache
      /\ cache[grid[h].entry].is_loaded

\* C18, amended: a file-backed handle whose is_loaded is true references an
\* entry in the cache whose is_loaded is true (a copy under construction
\* included), unless the handle is inside its own unload() after the
\* demotion; so when the eviction check has cleared an entry, the only
\* handle of the entry that can still have is_loaded true is the one whose
\* unload() made the clear.
C18_NoReaderRacesClear ==
  \A h \in DOMAIN grid :
    (grid[h].entry # NULL /\ grid[h].is_loaded /\ ~Demoted(h)) =>
      /\ grid[h].entry \in DOMAIN cache
      /\ cache[grid[h].entry].is_loaded
      /\ cache[grid[h].entry].num_tree_users >= 1

\* A copy of a loaded handle is under construction (is_loaded true, not yet
\* counted) while the other thread has destroyed another loaded handle of
\* the entry: the source's unit keeps the entry loaded.
C18_Witness ==
  \E t1, t2 \in Threads : \E k \in DOMAIN cache :
    /\ t1 # t2
    /\ pc[t1] = "copy_user" /\ grid[hnd[t1]].entry = k /\ grid[hnd[t1]].is_loaded
    /\ op[t2] = "dtor" /\ pc[t2] = "unlock"
    /\ cache[k].num_tree_users = 1 /\ cache[k].is_loaded

\* The counters of the entries, without their mutexes.
Counters == [k \in DOMAIN cache |->
               <<cache[k].num_metadata_users, cache[k].num_tree_users>>]

\* C19: a handle is promoted at most once.  load() enters its locked part
\* only for a handle that is not loaded (for a loaded handle the call is
\* the step that changes nothing); a call that finds the handle loaded
\* after it took the entry's mutex returns without changing a counter and
\* without a read; the promotion step moves exactly one unit from
\* num_metadata_users to num_tree_users, for a handle that is not loaded and
\* that no other thread has promoted; and when no call is in progress each
\* counter equals the number of handles of its class, so that concurrent
\* load() calls on one handle have moved one unit in total.
C19_Step ==
  /\ \A t \in Threads :
       /\ (op[t] = "none" /\ op'[t] = "load") =>
            /\ ~grid[hnd'[t]].is_loaded
            /\ UNCHANGED <<cache, gmutex, grid, reads>>
       /\ (pc[t] = "load_lock" /\ op'[t] = "none") =>
            /\ grid[hnd[t]].is_loaded
            /\ UNCHANGED <<cache, gmutex, grid, reads>>
       /\ (pc[t] = "load_change" /\ pc'[t] # pc[t]) =>
            LET h == hnd[t]
                k == grid[h].entry
            IN  /\ ~grid[h].is_loaded
                /\ cache[k].mutex = t
                /\ \A u \in Threads \ {t} : ~(hnd[u] = h /\ Promoted(u, k))
                /\ cache'[k].num_tree_users = cache[k].num_tree_users + 1
                /\ cache'[k].num_metadata_users = cache[k].num_metadata_users - 1
       /\ (op[t] = "load" /\ pc[t] # "load_change" /\ pc'[t] # pc[t]) =>
            Counters' = Counters
  /\ (\A t \in Threads : op'[t] = "none") =>
       \A k \in DOMAIN cache' :
         /\ cache'[k].num_tree_users = Cardinality(HandlesOfClass(k, TRUE)')
         /\ cache'[k].num_metadata_users = Cardinality(HandlesOfClass(k, FALSE)')

\* C19 (a handle is promoted at most once) holds at every step.
C19_PromotedOnce == [][C19_Step]_vars

\* Two threads are inside load() of the same handle: one has promoted it and
\* reads the tree, the other waits for the entry's mutex.
C19_Witness ==
  \E t1, t2 \in Threads : \E k \in DOMAIN cache :
    /\ t1 # t2 /\ hnd[t1] = hnd[t2]
    /\ Promoted(t1, k) /\ pc[t1] = "load_read"
    /\ op[t2] = "load" /\ pc[t2] = "load_lock"

\* The VolumeGrid objects that are not file-backed.
PrivateHandles == {h \in DOMAIN grid : grid[h].entry = NULL}

\* C20: handles that are not file-backed never interact with the cache.
\* Such a handle has is_loaded true from its construction (from a grid or
\* as a copy) to its destruction; a step that constructs, copies or
\* destroys one changes neither the cache nor the global lock and starts
\* no call body; and no thread is ever inside the body of load(), unload()
\* or a cache member function for such a handle.
C20_Step ==
  /\ \A h \in PrivateHandles' : grid'[h].is_loaded
  /\ \A h \in PrivateHandles : h \in DOMAIN grid' => grid'[h] = grid[h]
  /\ PrivateHandles' # PrivateHandles =>
       /\ UNCHANGED <<cache, gmutex, reads, evicted>>
       /\ UNCHANGED threadvars
  /\ \A t \in Threads :
       /\ hnd'[t] \notin PrivateHandles'
       /\ src'[t] \notin PrivateHandles'

\* C20 (handles that are not file-backed leave the cache alone) holds at
\* every step.
C20_PrivateHandlesLeaveCache == [][C20_Step]_vars

\* Two handles that are not file-backed (a grid and its copy, or two grids)
\* exist next to a loaded file-backed handle, with no call in progress.
C20_Witness ==
  \E h1, h2 \in PrivateHandles : \E k \in DOMAIN cache :
    /\ h1 # h2
    /\ cache[k].is_loaded /\ cache[k].num_tree_users = 1
    /\ \A t \in Threads : op[t] = "none"

\* C21: unload() of a handle only demotes it.  The locked part of unload()
\* is entered only for a loaded handle (for a handle that is not loaded the
\* call changes nothing, also when it finds that out after locking); its
\* cache call moves exactly one unit from num_tree_users to
\* num_metadata_users and keeps the entry in the cache; when a tree user of
\* the entry remains, the entry's tree, is_loaded and error_msg are
\* unchanged; and its last step sets the handle's is_loaded to false and
\* changes no counter.
C21_Step ==
  \A t \in Threads :
    /\ (op[t] = "none" /\ op'[t] = "unload") =>
         /\ grid[hnd'[t]].is_loaded
         /\ UNCHANGED <<cache, gmutex, grid, reads>>
    /\ (pc[t] = "unload_lock" /\ op'[t] = "none") =>
         /\ ~grid[hnd[t]].is_loaded
         /\ UNCHANGED <<cache, gmutex, grid, reads>>
    /\ (pc[t] = "unload_change" /\ pc'[t] # pc[t]) =>
         LET h == hnd[t]
             k == grid[h].entry
         IN  /\ grid[h].is_loaded /\ cache[k].mutex = t
             /\ k \in DOMAIN cache'
             /\ cache'[k].num_tree_users = cache[k].num_tree_users - 1
             /\ cache'[k].num_metadata_users = cache[k].num_metadata_users + 1
             /\ cache'[k].error_msg = cache[k].error_msg
             /\ cache'[k].num_tree_users >= 1 =>
                  /\ cache'[k].tree = cache[k].tree
                  /\ cache'[k].is_loaded = cache[k].is_loaded
             /\ UNCHANGED grid
    /\ (pc[t] = "unload_done" /\ pc'[t] # pc[t]) =>
         /\ ~grid'[hnd[t]].is_loaded
         /\ Counters' = Counters
         /\ \A h \in DOMAIN grid \ {hnd[t]} : grid'[h] = grid[h]

\* C21 (unload only demotes) holds at every step.
C21_UnloadOnlyDemotes == [][C21_Step]_vars

\* unload() has demoted a handle while another tree user of the entry
\* remains: the entry is still loaded.
C21_Witness ==
  \E t \in Threads : \E k \in DOMAIN cache :
    /\ Unloading(t, k) /\ pc[t] = "unload_done"
    /\ grid[hnd[t]].is_loaded
    /\ cache[k].num_tree_users >= 1 /\ cache[k].is_loaded

\* Thread t destroys the first element of its volume's collection in this
\* step of BKE_volume_unload.
DestroysElement(t) ==
  /\ pc[t] = "vunload_clear" /\ pc'[t] # pc[t]
  /\ grids[vol[t]].elems # <<>>

\* C22: collection unload.  BKE_volume_unload enters its body only for a
\* collection with a file path (on an empty file path the call changes
\* neither the collection nor the cache); each handle it destroys takes one
\* unit from the counter of its class (num_tree_users if the handle is
\* loaded, num_metadata_users otherwise) of its entry, or erases the entry
\* when that was its last user, and changes no other entry; and when the
\* call returns the collection has no handles, an empty error_msg and an
\* empty file path.
C22_Step ==
  \A t \in VolumeThreads :
    /\ (op[t] = "none" /\ op'[t] = "volume_unload") =>
         /\ grids[vol'[t]].filepath # EmptyPath
         /\ UNCHANGED <<cache, grid, grids, volume>>
    /\ DestroysElement(t) =>
         LET h == Head(grids[vol[t]].elems)
             k == grid[h].entry
         IN  /\ h \notin DOMAIN grid'
             /\ grids'[vol[t]].elems = Tail(grids[vol[t]].elems)
             /\ \A x \in DOMAIN cache \ {k} : x \in DOMAIN cache' /\ cache'[x] = cache[x]
             /\ IF Users(cache[k]) = 1
                  THEN k \notin DOMAIN cache'
                  ELSE /\ k \in DOMAIN cache'
                       /\ cache'[k].num_tree_users =
                            cache[k].num_tree_users - (IF grid[h].is_loaded THEN 1 ELSE 0)
                       /\ cache'[k].num_metadata_users =
                            cache[k].num_metadata_users - (IF grid[h].is_loaded THEN 0 ELSE 1)
    /\ (op[t] = "volume_unload" /\ op'[t] = "none") =>
         /\ grids'[vol[t]].elems = <<>>
         /\ grids'[vol[t]].error_msg = ""
         /\ grids'[vol[t]].filepath = EmptyPath
         /\ UNCHANGED <<cache, grid>>

\* C22 (collection unload) holds at every step.
C22_CollectionUnload == [][C22_Step]_vars

\* BKE_volume_unload has destroyed the last element of a collection, a
\* loaded handle that was the last user of its entry: the entry, which held
\* a tree, is erased.
C22_Witness ==
  \E t \in VolumeThreads : \E k \in Keys :
    /\ op[t] = "volume_unload" /\ pc[t] = "unlock"
    /\ grids[vol[t]].elems = <<>>
    /\ Evicted(k) = "tree"

\* BKE_volume_load on volume v returns in this step, with runtime.frame being
\* VOLUME_FRAME_NONE.
ReturnsAtFrameNone(v) ==
  /\ last_load'[v] # last_load[v]
  /\ last_load'[v] # <<>>
  /\ last_load'[v][1].frame = VOLUME_FRAME_NONE

\* C23: when runtime.frame is VOLUME_FRAME_NONE, BKE_volume_load returns true
\* in the step of the call, without entering the part that tests, opens and
\* enumerates the file, and leaves the collection (file path, handles,
\* error_msg), the handles and the cache unchanged.
C23_Step ==
  \A v \in Volumes :
    /\ ReturnsAtFrameNone(v) =>
         /\ last_load'[v][1].ret = TRUE
         /\ \A t \in VolumeThreads : op[t] = "none" /\ op'[t] = "none"
         /\ UNCHANGED <<cache, gmutex, grid, reads, grids, volume>>
    /\ \A t \in VolumeThreads :
         (op'[t] = "volume_load" /\ vol'[t] = v) =>
           volume'[v].frame # VOLUME_FRAME_NONE

\* C23 (no load outside the sequence range) holds at every step.
C23_FrameNoneLoadsNothing == [][C23_Step]_vars

\* BKE_volume_load has returned true for a volume with a file path whose
\* frame is VOLUME_FRAME_NONE: the collection is still not loaded.
C23_Witness ==
  \E v \in Volumes :
    /\ LoadReturned(v)
    /\ last_load[v][1].frame = VOLUME_FRAME_NONE /\ last_load[v][1].ret = TRUE
    /\ volume[v].frame = VOLUME_FRAME_NONE
    /\ volume[v].filepath # EmptyPath /\ grids[v].filepath = EmptyPath
    /\ \A t \in VolumeThreads : op[t] = "none"

\* The grid names of the elements of v's collection, in the order of the
\* vector.
ElemNames(v) ==
  [i \in DOMAIN grids[v].elems |-> grid[grids[v].elems[i]].entry[2]]

\* The names of the non-null grids of an enumerated list, in its order.
RECURSIVE GridsToAdd(_)
GridsToAdd(vdb_grids) ==
  IF vdb_grids = <<>> THEN <<>>
  ELSE IF Head(vdb_grids) = NULL THEN GridsToAdd(Tail(vdb_grids))
  ELSE <<Head(vdb_grids)[1]>> \o GridsToAdd(Tail(vdb_grids))

\* What the loop of BKE_volume_load run by t has still to add: the grid whose
\* handle is under construction, then the rest of the enumeration.
Pending(t) ==
  (IF pc[t] = "vload_emplaced" THEN <<grid[hnd[t]].entry[2]>> ELSE <<>>)
    \o GridsToAdd(loc[t])

\* Thread t is in the loop over vdb_grids.
InEmplaceLoop(t) == pc[t] \in {"vload_emplace", "vload_emplaced"}

\* C24: the load of a collection reads metadata only.  The loop starts with
\* an empty vector; each of its steps keeps (names of the elements) followed by
\* (names still to add), so that at the return the elements are the non-null
\* enumerated grids, one handle each, in the order of discovery; each new
\* handle has is_loaded false and puts one metadata user on the entry of
\* (file path of the collection, grid name).  No step of the load reads a
\* tree, changes num_tree_users or changes is_loaded of an entry.
C24_Step ==
  \A t \in VolumeThreads :
    (op[t] = "volume_load" /\ <<pc[t], loc[t]>> # <<pc'[t], loc'[t]>>) =>
      LET v == vol[t]
      IN  /\ reads' = reads
          /\ \A k \in DOMAIN cache :
               /\ k \in DOMAIN cache'
               /\ cache'[k].num_tree_users = cache[k].num_tree_users
               /\ cache'[k].is_loaded = cache[k].is_loaded
               /\ cache'[k].tree = cache[k].tree
          /\ \A k \in DOMAIN cache' \ DOMAIN cache :
               /\ cache'[k].num_tree_users = 0
               /\ ~cache'[k].is_loaded
          /\ \A h \in DOMAIN grid :
               h \in DOMAIN grid' /\ grid'[h] = grid[h]
          /\ pc[t] = "vload_open" => grids[v].elems = <<>> /\ grids'[v].elems = <<>>
          /\ (InEmplaceLoop(t) /\ InEmplaceLoop(t)') =>
               ElemNames(v)' \o Pending(t)' = ElemNames(v) \o Pending(t)
          /\ (pc[t] = "vload_emplace" /\ pc'[t] = "vload_emplaced") =>
               LET k == <<grids[v].filepath, Head(loc[t])[1]>>
               IN  /\ hnd'[t] \notin DOMAIN grid
                   /\ DOMAIN grid' = DOMAIN grid \cup {hnd'[t]}
                   /\ grid'[hnd'[t]] = [entry |-> k, is_loaded |-> FALSE]
                   /\ cache'[k].num_metadata_users =
                        (IF k \in DOMAIN cache
                           THEN cache[k].num_metadata_users ELSE 0) + 1
                   /\ \A j \in DOMAIN cache \ {k} : cache'[j] = cache[j]
          /\ (pc[t] = "vload_emplaced") =>
               /\ cache' = cache
               /\ Len(grids'[v].elems) = Len(grids[v].elems) + 1
          /\ (pc[t] = "vload_emplace" /\ op'[t] = "none") =>
               /\ Pending(t) = <<>>
               /\ grids'[v].elems = grids[v].elems
               /\ \A h \in Elems(v) :
                    ~grid[h].is_loaded /\ grid[h].entry[1] = grids[v].filepath

Loaders(v) == {t \in Threads : InLoadBody(t, v)}

\* C25: of the threads that call BKE_volume_load on one unloaded collection,
\* one opens and enumerates the file: a thread enters the locked part only
\* while the file path of the collection is empty and writes it, the path
\* stays until BKE_volume_unload, at most one thread is in the locked part and
\* it holds the mutex, the file is opened with an empty vector, only the
\* loader adds handles (one per grid still to add) and a call that returns
\* leaves a loaded collection.
C25_Step ==
  \A v \in Volumes :
    /\ Cardinality(Loaders(v)') <= 1
    /\ \A t \in Loaders(v)' : grids'[v].mutex = t
    /\ (grids[v].filepath # EmptyPath /\ grids'[v].filepath # grids[v].filepath) =>
         \E u \in Threads : op[u] = "volume_unload" /\ vol[u] = v
    /\ grids'[v].elems # grids[v].elems =>
         \/ \E u \in Threads : op[u] = "volume_unload" /\ vol[u] = v
         \/ \E t \in Loaders(v) : pc[t] = "vload_emplaced" /\ pc'[t] # pc[t]
    /\ \A t \in Threads :
         vol[t] = v =>
           /\ (pc[t] = "vload_lock" /\ pc'[t] = "vload_exists") =>
                /\ grids[v].filepath = EmptyPath
                /\ grids'[v].filepath # EmptyPath
                /\ grids[v].elems = <<>>
           /\ (pc[t] = "vload_open" /\ pc'[t] = "vload_emplace") =>
                /\ grids[v].mutex = t
                /\ grids[v].elems = <<>>
           /\ (InEmplaceLoop(t) /\ InEmplaceLoop(t)') =>
                ElemNames(v)' \o Pending(t)' = ElemNames(v) \o Pending(t)
           /\ (op[t] = "volume_load" /\ op'[t] = "none") =>
                /\ grids'[v].filepath # EmptyPath
                /\ pc[t] = "vload_emplace" => Pending(t) = <<>>

\* C25 (one enumeration for concurrent loads) holds at every step.
C25_LoadedOnce == [][C25_Step]_vars

\* Two threads are inside BKE_volume_load of one collection: one has
\* enumerated the file and added a handle, the other waits for the mutex.
C25_Witness ==
  \E v \in Volumes : \E t, u \in Threads :
    /\ t # u
    /\ op[t] = "volume_load" /\ vol[t] = v /\ pc[t] = "vload_emplace"
    /\ Len(grids[v].elems) >= 1
    /\ op[u] = "volume_load" /\ vol[u] = v /\ pc[u] = "vload_lock"

\* C26: BKE_volume_load returns true if and only if the error_msg of the
\* collection is empty when the call returns, whatever the state it is called
\* in (loaded or not, any value of runtime.frame).
C26_Step ==
  \A v \in Volumes :
    (LoadReturned(v)' /\ last_load'[v] # last_load[v]) =>
      last_load'[v][1].ret = (grids'[v].error_msg = "")

\* C26 (success if and only if no error text), at every step.
C26_SuccessIffNoError == [][C26_Step]_vars

\* The sequence settings of the specification of volume_sequence_frame: the
\* four modes of VolumeSequenceMode, some durations, start frames, offsets
\* and scene frames (negative, zero and positive).
SequenceModes == {"CLIP", "EXTEND", "REPEAT", "PING_PONG"}
Durations == {0, 1, 2, 3, 10}
Starts == {-2, 1}
Offsets == {-3, 0}
SceneTimes == -12 .. 30

\* A sequence volume and its copy-on-write copy, not loaded, with some
\* settings.
InitFrame ==
  /\ cache = <<>>
  /\ gmutex = NoThread
  /\ grid = <<>>
  /\ op = [t \in Threads |-> "none"]
  /\ pc = [t \in Threads |-> "idle"]
  /\ cont = [t \in Threads |-> "idle"]
  /\ hnd = [t \in Threads |-> NoHandle]
  /\ src = [t \in Threads |-> NoHandle]
  /\ reads = [k \in Keys |-> 0]
  /\ evicted = <<>>
  /\ \E mode \in SequenceModes : \E duration \in Durations :
       \E start \in Starts : \E offset \in Offsets :
         volume = [v \in Volumes |->
                     [Volume(VolumePath) EXCEPT !.sequence_mode = mode,
                                                !.frame_duration = duration,
                                                !.frame_start = start,
                                                !.frame_offset = offset]]
  /\ grids = [v \in Volumes |-> VolumeGridVector]
  /\ vol = [t \in Threads |-> NoVolume]
  /\ loc = [t \in Threads |-> <<>>]
  /\ ret = [t \in Threads |-> <<>>]
  /\ last_load = [v \in Volumes |-> <<>>]

\* The depsgraph evaluates the volume at some scene frame.
NextFrame ==
  \E t \in VolumeThreads :
    \/ \E scene_frame \in SceneTimes : \E active \in BOOLEAN :
         BKE_volume_eval_geometry(t, scene_frame, active)
    \/ eval_set(t)

SpecFrame == InitFrame /\ [][NextFrame]_vars

\* Thread t has computed volume_sequence_frame for the evaluated volume:
\* the scene frame it used, the frame it got and the settings.
FrameComputed(t) == op[t] = "eval" /\ pc[t] = "eval_set"
scene_time(t) == loc[t][3]
resolved(t) == loc[t][1]
settings == volume["cow"]
raw(t) == scene_time(t) - settings.frame_start + 1

\* C27: the golden cases of the frame mapping.  With frame_duration 10,
\* frame_start 1 and frame_offset 0, volume_sequence_frame gives
\* VOLUME_FRAME_NONE for CLIP at scene frame 15, 10 for EXTEND at 15, 1 for
\* REPEAT at 21, 1 for PING_PONG at 19 and 10 for PING_PONG at 28, and the
\* computation does not trap.
GoldenSettings ==
  /\ settings.frame_duration = 10
  /\ settings.frame_start = 1
  /\ settings.frame_offset = 0

Golden(t, mode, time, frame) ==
  (settings.sequence_mode = mode /\ scene_time(t) = time) => resolved(t) = frame

C27_GoldenCases ==
  \A t \in VolumeThreads :
    /\ GoldenSettings => pc[t] # "SIGFPE"
    /\ (FrameComputed(t) /\ GoldenSettings) =>
         /\ Golden(t, "CLIP", 15, VOLUME_FRAME_NONE)
         /\ Golden(t, "EXTEND", 15, 10)
         /\ Golden(t, "REPEAT", 21, 1)
         /\ Golden(t, "PING_PONG", 19, 1)
         /\ Golden(t, "PING_PONG", 28, 10)

\* volume_sequence_frame has given 10 for PING_PONG at scene frame 28 with
\* the golden settings.
C27_Witness ==
  \E t \in VolumeThreads :
    /\ FrameComputed(t) /\ GoldenSettings
    /\ settings.sequence_mode = "PING_PONG"
    /\ scene_time(t) = 28 /\ resolved(t) = 10

\* C28: for a sequence with frame_duration 0, volume_sequence_frame gives
\* VOLUME_FRAME_NONE in every mode, for every scene frame, start and offset.
\* In mode CLIP with frame_duration >= 1 it gives VOLUME_FRAME_NONE exactly
\* when raw = scene_frame - frame_start + 1 is outside 1..frame_duration, and
\* raw + frame_offset otherwise: the offset is not added to
\* VOLUME_FRAME_NONE.  Neither case traps.
C28_ClipAndEmpty ==
  \A t \in VolumeThreads :
    /\ (settings.frame_duration = 0 \/ settings.sequence_mode = "CLIP") =>
         pc[t] # "SIGFPE"
    /\ (FrameComputed(t) /\ settings.is_sequence) =>
         /\ settings.frame_duration = 0 => resolved(t) = VOLUME_FRAME_NONE
         /\ (settings.sequence_mode = "CLIP" /\ settings.frame_duration >= 1) =>
              /\ resolved(t) = VOLUME_FRAME_NONE
                   <=> raw(t) \notin 1 .. settings.frame_duration
              /\ raw(t) \in 1 .. settings.frame_duration =>
                   resolved(t) = raw(t) + settings.frame_offset

\* volume_sequence_frame has given raw + frame_offset for a CLIP sequence
\* with an offset, and VOLUME_FRAME_NONE is what the evaluated volume had
\* before.
C28_Witness ==
  \E t \in VolumeThreads :
    /\ FrameComputed(t)
    /\ settings.sequence_mode = "CLIP" /\ settings.frame_duration = 3
    /\ settings.frame_offset = -3 /\ settings.frame_start = -2
    /\ raw(t) = 3 /\ resolved(t) = 0
    /\ settings.frame = VOLUME_FRAME_NONE

\* The frame of the sequence before frame_offset is added.
unshifted(t) == resolved(t) - settings.frame_offset

\* C29: for frame_duration >= 1 and raw = scene_frame - frame_start + 1,
\* negative, zero or positive: mode EXTEND gives clamp(raw, 1, frame_duration)
\* + frame_offset, and mode REPEAT gives f + frame_offset with f the value of
\* 1..frame_duration congruent to raw modulo frame_duration.  Neither traps.
C29_ExtendAndRepeat ==
  \A t \in VolumeThreads :
    /\ (settings.frame_duration >= 1
           /\ settings.sequence_mode \in {"EXTEND", "REPEAT"}) => pc[t] # "SIGFPE"
    /\ (FrameComputed(t) /\ settings.frame_duration >= 1) =>
         /\ settings.sequence_mode = "EXTEND" =>
              unshifted(t) = IF raw(t) < 1 THEN 1
                          ELSE IF raw(t) > settings.frame_duration
                            THEN settings.frame_duration
                            ELSE raw(t)
         /\ settings.sequence_mode = "REPEAT" =>
              /\ unshifted(t) \in 1 .. settings.frame_duration
              /\ (unshifted(t) - raw(t)) % settings.frame_duration = 0

\* volume_sequence_frame has given 2 for a REPEAT sequence of 3 frames at
\* raw = -4, where the C remainder is -1.
C29_Witness ==
  \E t \in VolumeThreads :
    /\ FrameComputed(t)
    /\ settings.sequence_mode = "REPEAT" /\ settings.frame_duration = 3
    /\ settings.frame_start = 1 /\ settings.frame_offset = 0
    /\ scene_time(t) = -4 /\ raw(t) = -4 /\ resolved(t) = 2

\* The triangle wave 1, 2, ..., duration, duration - 1, ..., 2 of period
\* 2 * duration - 2 at position x (1 for duration 1).
TriangleWave(x, duration) ==
  IF duration = 1 THEN 1
  ELSE LET m == (x - 1) % (2 * duration - 2)
       IN  IF m < duration THEN m + 1 ELSE 2 * duration - 1 - m

\* C30: for every frame_duration >= 1, frame_duration 1 included, and every
\* start, offset and scene frame, mode PING_PONG computes a defined result
\* f + frame_offset, with f in 1..frame_duration the value of the triangle
\* wave of period 2 * frame_duration - 2 at raw = scene_frame - frame_start + 1.
C30_PingPongDefined ==
  \A t \in VolumeThreads :
    (settings.sequence_mode = "PING_PONG" /\ settings.frame_duration >= 1) =>
      /\ pc[t] # "SIGFPE"
      /\ FrameComputed(t) =>
           /\ unshifted(t) \in 1 .. settings.frame_duration
           /\ unshifted(t) = TriangleWave(raw(t), settings.frame_duration)

\* Every grid collection is unloaded and no VolumeGrid object is alive.
AllReleased ==
  /\ \A v \in Volumes : grids[v].filepath = EmptyPath /\ grids[v].elems = <<>>
  /\ DOMAIN grid = {}

\* C31: teardown emptiness.  In every state where all collections are
\* unloaded and no VolumeGrid object is alive the cache has no entry, so
\* that assert(cache.size() == 0) of ~VolumeFileCache holds.
C31_TeardownEmpty == AllReleased => cache = <<>>

\* Collections were loaded and handles copied, and all are gone again: the
\* last entry has been erased and the cache is empty.
C31_Witness ==
  /\ AllReleased
  /\ \A t \in Threads : Idle(t)
  /\ evicted # <<>>
  /\ cache = <<>>

\* Thread t runs change_to_tree_user or change_to_metadata_user in this step.
ChangesClass(t) ==
  pc[t] \in {"load_change", "unload_change"} /\ pc'[t] # pc[t]

\* No member function of a VolumeGrid is running.
NoHandleOperation == \A t \in Threads : op[t] = "none"

\* C32: counter conservation.  No counter of an entry is ever negative;
\* change_to_tree_user and change_to_metadata_user keep the entry in the
\* cache with the same num_metadata_users + num_tree_users, moving one unit;
\* and when no handle operation is running, num_tree_users is the number of
\* handles of the entry with is_loaded true and num_metadata_users the number
\* of those with is_loaded false.
C32_Step ==
  /\ \A k \in DOMAIN cache' :
       cache'[k].num_metadata_users >= 0 /\ cache'[k].num_tree_users >= 0
  /\ \A t \in Threads :
       ChangesClass(t) =>
         LET k == grid[hnd[t]].entry
             d == IF pc[t] = "load_change" THEN 1 ELSE -1
         IN  /\ k \in DOMAIN cache /\ k \in DOMAIN cache'
             /\ Users(cache'[k]) = Users(cache[k])
             /\ cache'[k].num_tree_users = cache[k].num_tree_users + d
             /\ cache'[k].num_metadata_users = cache[k].num_metadata_users - d
             /\ \A j \in DOMAIN cache \ {k} :
                  j \in DOMAIN cache' /\ Counters'[j] = Counters[j]
  /\ NoHandleOperation' =>
       \A k \in DOMAIN cache' :
         /\ cache'[k].num_tree_users =
              Cardinality({h \in DOMAIN grid' :
                             grid'[h].entry = k /\ grid'[h].is_loaded})
         /\ cache'[k].num_metadata_users =
              Cardinality({h \in DOMAIN grid' :
                             grid'[h].entry = k /\ ~grid'[h].is_loaded})

\* C32 (counter conservation) holds at every step.
C32_CounterConservation == [][C32_Step]_vars

\* No operation is running and an entry has one tree user and two metadata
\* users: one loaded handle and two that are not.
C32_Witness ==
  /\ NoHandleOperation
  /\ \E k \in DOMAIN cache :
       /\ cache[k].num_tree_users = 1 /\ cache[k].num_metadata_users = 2
       /\ Cardinality({h \in HandlesOf(k) : grid[h].is_loaded}) = 1
       /\ Cardinality({h \in HandlesOf(k) : ~grid[h].is_loaded}) = 2

\* Thread t runs VolumeGrid(const Entry &), and so add_metadata_user, in
\* this step.
Attaches(t) == op[t] = "none" /\ op'[t] = "ctor"

\* C33: attaching to an existing entry does not disturb it.
\* add_metadata_user with a key that is in the cache adds no entry (the
\* cache holds one entry per file path and grid name), increments
\* num_metadata_users of the entry found and changes nothing else of it
\* (tree, is_loaded, error_msg, num_tree_users, mutex); the other entries
\* and all existing handles stay as they are, and the new handle points to
\* the entry found.
C33_Step ==
  \A t \in Threads :
    Attaches(t) =>
      LET k == grid'[hnd'[t]].entry
      IN  k \in DOMAIN cache =>
            /\ DOMAIN cache' = DOMAIN cache
            /\ cache' = [cache EXCEPT ![k].num_metadata_users = @ + 1]
            /\ EntryKey(cache'[k]) = k
            /\ \A h \in DOMAIN grid : grid'[h] = grid[h]
            /\ ~grid'[hnd'[t]].is_loaded

\* C33 (attaching to an existing entry) holds at every step.
C33_AttachKeepsEntry == [][C33_Step]_vars

\* A handle is being constructed on an entry that another handle has loaded
\* with a failed read: the entry keeps its tree user, is_loaded and error
\* text.
C33_Witness ==
  \E t \in Threads :
    /\ op[t] = "ctor" /\ pc[t] = "unlock"
    /\ LET k == grid[hnd[t]].entry
       IN  /\ cache[k].is_loaded /\ cache[k].error_msg # ""
           /\ cache[k].num_tree_users = 1
           /\ cache[k].num_metadata_users = 1

\* After the step, handle h is a loaded file-backed handle whose entry holds
\* an error text.
LoadedWithError(h) ==
  /\ grid'[h].entry # NULL
  /\ grid'[h].is_loaded
  /\ cache'[grid'[h].entry].error_msg # ""

\* BKE_volume_grid_load(v, h) returns in this step to thread t: what it
\* returns and what it does to the collection.
GridLoadResult(t, v, h) ==
  /\ ret'[t] = <<~LoadedWithError(h)>>
  /\ LoadedWithError(h) =>
       grids'[v].error_msg = cache'[grid'[h].entry].error_msg
  /\ ~LoadedWithError(h) => grids' = grids

\* The part of C34 about the call itself: BKE_volume_grid_load returns false
\* exactly when, after the load attempt, the handle is a loaded file-backed
\* handle whose entry has an error text, and then the collection's error_msg
\* is that text; when it returns true the collection is unchanged.
C34_StepCall ==
  \A t \in VolumeThreads :
    /\ \A v \in Volumes : \A i \in DOMAIN grids[v].elems :
         (BKE_volume_grid_load(t, v, i) /\ op'[t] = "none") =>
           GridLoadResult(t, v, grids[v].elems[i])
    /\ (pc[t] = "gload_error" /\ pc'[t] # pc[t]) =>
         GridLoadResult(t, vol[t], hnd[t])

\* The part of C34 about later calls: while the collection keeps the error
\* text of a grid (it has handles and a non-empty error_msg), that is until
\* it is unloaded, every BKE_volume_load on it returns false.
C34_StepLater ==
  \A v \in Volumes :
    (LoadReturned(v)' /\ last_load'[v] # last_load[v]
       /\ grids'[v].elems # <<>> /\ grids'[v].error_msg # "") =>
      last_load'[v][1].ret = FALSE

\* C34: errors of the load of a grid propagate to the collection.
\* BKE_volume_grid_load returns false exactly when the handle ends as a
\* loaded file-backed handle whose entry has an error text, the collection's
\* error_msg is then that text and every later BKE_volume_load on the
\* collection returns false until the collection is unloaded; when it
\* returns true the collection's error_msg is unchanged.
C34_GridErrorPropagates == [][C34_StepCall /\ C34_StepLater]_vars

\* The part of C34 about the call, at every step.
C34_GridLoadResult == [][C34_StepCall]_vars

\* ---- Readers of the tree on the lock-free fast path ----

\* BKE_volume_grid_bounds and BKE_volume_grid_dense_voxels read the tree of
\* volume_grid->vdb, the grid object the handle shares with its entry, after
\* load() returned. On the fast path load() tests is_loaded, a plain bool,
\* without the entry's mutex: the test races with the store of load_done,
\* and no acquire fence orders the later read of the tree after it. The
\* build may therefore satisfy the read of the tree before the test:
\* tree_read is that read, fast_path_test the test of is_loaded.
tree_read(t, h) ==
  /\ Idle(t)
  /\ Usable(h)
  /\ grid[h].entry # NULL
  /\ op' = [op EXCEPT ![t] = "bounds"]
  /\ pc' = [pc EXCEPT ![t] = "fast_path_test"]
  /\ hnd' = [hnd EXCEPT ![t] = h]
  /\ loc' = [loc EXCEPT ![t] = [tree |-> cache[grid[h].entry].tree,
                                error_msg |-> cache[grid[h].entry].error_msg]]
  /\ UNCHANGED <<cont, src, volume, grids, vol, ret, last_load>>
  /\ UNCHANGED cachevars

\* if (is_loaded || entry == NULL) return; when is_loaded is false the
\* caller takes the entry's mutex, which VolumeGrid_load models.
fast_path_test(t) ==
  /\ pc[t] = "fast_path_test"
  /\ IF grid[hnd[t]].is_loaded
       THEN /\ pc' = [pc EXCEPT ![t] = "bounds"]
            /\ UNCHANGED <<op, cont, hnd, src, loc>>
       ELSE /\ Return(t)
            /\ loc' = [loc EXCEPT ![t] = <<>>]
  /\ UNCHANGED <<volume, grids, vol, ret, last_load>>
  /\ UNCHANGED cachevars

\* The reader returns with what it saw of the tree.
bounds(t) ==
  /\ pc[t] = "bounds"
  /\ Return(t)
  /\ loc' = [loc EXCEPT ![t] = <<>>]
  /\ UNCHANGED <<volume, grids, vol, ret, last_load>>
  /\ UNCHANGED cachevars

NextFastPath ==
  \/ Next
  \/ \E t \in Threads :
       \/ \E h \in HandleIds : tree_read(t, h)
       \/ fast_path_test(t)
       \/ bounds(t)

SpecFastPath == Init /\ [][NextFastPath]_vars

\* The entry has a populated tree or an error text.
ReadFinished(e) == e.tree = "tree" \/ e.error_msg # ""

\* An entry's is_loaded becomes true only in the step of load() after the
\* read, with the tree attached or the error recorded.
C35_EntryAfterRead ==
  \A k \in DOMAIN cache' :
    (cache'[k].is_loaded /\ (k \in DOMAIN cache => ~cache[k].is_loaded)) =>
      /\ k \in DOMAIN cache
      /\ ReadFinished(cache[k])
      /\ \E t \in Threads :
           pc[t] = "load_publish" /\ pc'[t] = "load_done" /\ grid[hnd[t]].entry = k

\* The is_loaded of a handle inside load() becomes true only when its
\* entry's already is.
C35_HandleAfterEntry ==
  \A h \in DOMAIN grid \cap DOMAIN grid' :
    (grid[h].entry # NULL /\ ~grid[h].is_loaded /\ grid'[h].is_loaded) =>
      cache[grid[h].entry].is_loaded

\* Every entry with is_loaded true has a populated tree or an error text.
C35_LoadedEntryComplete ==
  \A k \in DOMAIN cache : cache[k].is_loaded => ReadFinished(cache[k])

\* A reader that saw is_loaded true on the fast path sees a populated tree
\* or an error text.
C35_FastPathComplete ==
  \A t \in Threads : pc[t] = "bounds" => ReadFinished(loc[t])

\* C35: publication order of a tree load. An entry's is_loaded is set only
\* after the read attempt has finished, the loading handle's only after the
\* entry's; every entry with is_loaded true has a populated tree or an
\* error text; and a thread that sees is_loaded true on the lock-free fast
\* path never sees a partially loaded entry.
C35_PublicationOrder ==
  [][C35_EntryAfterRead /\ C35_HandleAfterEntry /\ C35_LoadedEntryComplete'
       /\ C35_FastPathComplete']_vars

\* The part of C35 about the writer: the order of the stores of load().
C35_WriterOrder ==
  [][C35_EntryAfterRead /\ C35_HandleAfterEntry /\ C35_LoadedEntryComplete']_vars

\* ---- C36 ----

\* BKE_volume_eval_geometry returns without BKE_volume_unload only when the
\* resolved frame is runtime.frame, and then leaves the collections alone;
\* when it went through BKE_volume_unload the resolved frame differs from
\* runtime.frame and the collection of the evaluated volume is unloaded.
C36_StepUnload ==
  \A t \in VolumeThreads :
    /\ \A scene_frame \in SceneFrames : \A active \in BOOLEAN :
         (BKE_volume_eval_geometry(t, scene_frame, active) /\ op'[t] = "none") =>
           /\ <<volume["cow"].frame>> \in
                volume_sequence_frame_results(scene_frame, volume["cow"])
           /\ grids' = grids
    /\ (pc[t] = "eval_set" /\ pc'[t] # pc[t]) =>
         /\ loc[t][1] # volume[vol[t]].frame
         /\ grids[vol[t]].filepath = EmptyPath
         /\ grids[vol[t]].elems = <<>>
         /\ grids' = grids

\* The file_path of the loaded collection of v is the path that
\* volume_filepath_get resolves with the current runtime.frame of v.
ResolvedWithFrame(v) ==
  grids[v].filepath # EmptyPath => grids[v].filepath = volume_filepath_get(v)

\* C36: BKE_volume_eval_geometry unloads the collection of the volume
\* exactly when the newly resolved frame differs from runtime.frame and
\* leaves it untouched otherwise; so for the evaluated volume and for the
\* original it flushes to, a loaded collection's file_path was resolved
\* with the current runtime.frame of that volume.
C36_FrameChangeUnloads ==
  [][C36_StepUnload /\ \A v \in Volumes : ResolvedWithFrame(v)']_vars

\* The part of C36 about the evaluated volume.
C36_EvaluatedVolume == [][C36_StepUnload /\ ResolvedWithFrame("cow")']_vars

\* ---- C37 ----

\* Concurrent BKE_volume_load and BKE_volume_unload calls on one collection,
\* with the value each call returns recorded in ret.
InitLoads ==
  /\ InitVolume
  /\ volume = [v \in Volumes |-> Volume(VolumePath)]

NextLoads ==
  \E t \in Threads :
    \/ \E v \in LockVolumes :
         /\ \A u \in Threads : ~(op[u] = "volume_unload" /\ vol[u] = v)
         /\ BKE_volume_load(t, v)
    \/ \E v \in LockVolumes : Quiet(v) /\ BKE_volume_unload(t, v)
    \/ vload_lock(t)
    \/ vload_exists(t)
    \/ vload_open(t)
    \/ vload_emplace(t)
    \/ vload_emplaced(t)
    \/ vunload_clear(t)
    \/ CacheUnlock(t)

SpecLoads == InitLoads /\ [][NextLoads]_vars

\* Thread t returns from BKE_volume_load on v in this step: at once, from
\* the tests before the mutex, or from the locked part.
ReturnsFromLoad(t, v) ==
  \/ BKE_volume_load(t, v) /\ op'[t] = "none"
  \/ op[t] = "volume_load" /\ vol[t] = v /\ op'[t] = "none"

\* A call returns only when no other thread is inside the locked part of
\* BKE_volume_load on the collection, between the write of the file path
\* and the last emplace_back.
C37_StepReturn ==
  \A v \in LockVolumes : \A t \in Threads :
    ReturnsFromLoad(t, v) => Loaders(v) \ {t} = {}

\* The calls that return from the locked part return with the enumeration
\* finished.
C37_StepLocked ==
  \A v \in LockVolumes : \A t \in Threads :
    (op[t] = "volume_load" /\ vol[t] = v /\ op'[t] = "none") => Loaders(v)' = {}

\* The file path of the collection is non-empty only when no thread is
\* still to write error_msg or to add handles.
Final(v) == BKE_volume_is_loaded(v) => Loaders(v) = {}

\* C37: publication of the collection-loaded state. With concurrent
\* BKE_volume_load calls on one collection, a call that returns, from the
\* lock-free fast path or otherwise, does so only after the enumeration has
\* finished; the collection counts as loaded (file path non-empty) only
\* when its handle list and error_msg are final, so no caller gets success
\* while handles are still being appended.
C37_LoadedWhenFinal ==
  [][C37_StepReturn /\ C37_StepLocked /\ \A v \in LockVolumes : Final(v)']_vars

\* The part of C37 about the calls that return.
C37_NoEarlyReturn == [][C37_StepReturn]_vars

\* The part of C37 about the calls that took the mutex.
C37_LockedReturn == [][C37_StepLocked]_vars

\* ---- Copies of a collection: BKE_volume_copy_data and
\* BKE_volume_grids_backup_restore ----

\* VolumeGridVector(const VolumeGridVector &other) : error_msg(other.error_msg)
\* { memcpy(filepath, other.filepath, sizeof(filepath)); }
\* The base class std::vector<VolumeGrid> is not in the initializer list and
\* is default-constructed: the copy has no elements. The mutex is new.
VolumeGridVectorCopy(other) ==
  [filepath |-> other.filepath, error_msg |-> other.error_msg,
   elems |-> <<>>, mutex |-> NoThread]

\* A datablock whose file is not a sequence.
SingleFile == [Volume(<<"dir", "a_1.vdb">>) EXCEPT !.is_sequence = FALSE]

\* The copy-on-write datablock is re-copied from the original: the caller
\* detaches the collection of the copy and remembers its file path, the
\* datablock is copied and BKE_volume_copy_data gives it
\* OBJECT_GUARDED_NEW(VolumeGridVector, grids_src); the caller then calls
\* BKE_volume_grids_backup_restore with what it detached.
BKE_volume_copy_data(t) ==
  /\ Idle(t)
  /\ \A u \in Threads : Idle(u)
  /\ volume' = [volume EXCEPT !["cow"] = volume["orig"]]
  /\ grids' = [grids EXCEPT !["cow"] = VolumeGridVectorCopy(grids["orig"])]
  /\ loc' = [loc EXCEPT ![t] = [grids |-> grids["cow"],
                                filepath |-> volume["cow"].filepath,
                                restore |-> FALSE]]
  /\ op' = [op EXCEPT ![t] = "backup_restore"]
  /\ pc' = [pc EXCEPT ![t] = "backup_restore"]
  /\ vol' = [vol EXCEPT ![t] = "cow"]
  /\ last_load' = Recorded("cow", <<>>)
  /\ UNCHANGED <<cachevars, cont, hnd, src, ret>>

\* Variant: the detached collection is kept whenever it is loaded.
BKE_volume_grids_backup_restore_any_path(t) ==
  /\ pc[t] = "backup_restore"
  /\ loc' = [loc EXCEPT ![t].restore = loc[t].grids.filepath # EmptyPath]
  /\ pc' = [pc EXCEPT ![t] = "delete_grids"]
  /\ UNCHANGED <<cachevars, op, cont, hnd, src, vol, ret, volume, grids, last_load>>

\* if (!grids->is_loaded()) delete grids;
\* else if (!STREQ(volume->filepath, filepath)) delete grids;
\* else { delete volume->runtime.grids; volume->runtime.grids = grids; }
BKE_volume_grids_backup_restore(t) ==
  /\ pc[t] = "backup_restore"
  /\ loc' = [loc EXCEPT ![t].restore =
               /\ loc[t].grids.filepath # EmptyPath
               /\ volume[vol[t]].filepath = loc[t].filepath]
  /\ pc' = [pc EXCEPT ![t] = "delete_grids"]
  /\ UNCHANGED <<cachevars, op, cont, hnd, src, vol, ret, volume, grids, last_load>>

\* OBJECT_GUARDED_DELETE(..., VolumeGridVector): ~VolumeGridVector destroys
\* the elements one by one (~VolumeGrid, that is remove_user). The
\* collection deleted is the detached one, or the one of the volume, which
\* the detached one then replaces.
delete_grids(t) ==
  LET v == vol[t]
      elems == IF loc[t].restore THEN grids[v].elems ELSE loc[t].grids.elems
  IN  /\ pc[t] = "delete_grids"
      /\ IF elems = <<>>
           THEN /\ grids' = IF loc[t].restore
                              THEN [grids EXCEPT ![v] = loc[t].grids]
                              ELSE grids
                /\ VolumeReturn(t, <<>>)
                /\ UNCHANGED cachevars
           ELSE LET h == Head(elems)
                IN  /\ IF loc[t].restore
                         THEN /\ grids' = [grids EXCEPT ![v].elems = Tail(elems)]
                              /\ UNCHANGED loc
                         ELSE /\ loc' = [loc EXCEPT ![t].grids.elems = Tail(elems)]
                              /\ UNCHANGED grids
                    /\ grid' = [x \in (DOMAIN grid) \ {h} |-> grid[x]]
                    /\ IF grid[h].entry = NULL
                         THEN UNCHANGED <<cache, gmutex, reads, evicted, pc, cont>>
                         ELSE /\ gmutex = NoThread
                              /\ gmutex' = t
                              /\ cache' = remove_user(cache, grid[h].entry, grid[h].is_loaded)
                              /\ reads' = ReadsAfter(cache')
                              /\ evicted' = EvictedAfter(cache')
                              /\ pc' = [pc EXCEPT ![t] = "unlock"]
                              /\ cont' = [cont EXCEPT ![t] = "delete_grids"]
                    /\ UNCHANGED <<op, hnd, vol, ret>>
      /\ UNCHANGED <<src, volume, last_load>>

\* The original and its copy-on-write copy; the file path of the original
\* may have been edited since the copy was made.
InitCopy ==
  /\ cache = <<>>
  /\ gmutex = NoThread
  /\ grid = <<>>
  /\ op = [t \in Threads |-> "none"]
  /\ pc = [t \in Threads |-> "idle"]
  /\ cont = [t \in Threads |-> "idle"]
  /\ hnd = [t \in Threads |-> NoHandle]
  /\ src = [t \in Threads |-> NoHandle]
  /\ reads = [k \in Keys |-> 0]
  /\ evicted = <<>>
  /\ volume \in [Volumes -> {Volume(VolumePath), SingleFile}]
  /\ grids = [v \in Volumes |-> VolumeGridVector]
  /\ vol = [t \in Threads |-> NoVolume]
  /\ loc = [t \in Threads |-> <<>>]
  /\ ret = [t \in Threads |-> <<>>]
  /\ last_load = [v \in Volumes |-> <<>>]

NextCopy ==
  \E t \in VolumeThreads :
    \/ \E v \in Volumes : BKE_volume_load(t, v)
    \/ vload_lock(t)
    \/ vload_exists(t)
    \/ vload_open(t)
    \/ vload_emplace(t)
    \/ vload_emplaced(t)
    \/ \E v \in Volumes : BKE_volume_unload(t, v)
    \/ vunload_clear(t)
    \/ \E v \in Volumes : \E i \in HandleIds : BKE_volume_grid_load(t, v, i)
    \/ load_lock(t)
    \/ load_change(t)
    \/ load_check(t)
    \/ load_read(t)
    \/ load_publish(t)
    \/ load_done(t)
    \/ gload_error(t)
    \/ BKE_volume_copy_data(t)
    \/ BKE_volume_grids_backup_restore(t)
    \/ delete_grids(t)
    \/ CacheUnlock(t)

SpecCopy == InitCopy /\ [][NextCopy]_vars

\* ---- C38 ----

\* The number of elements of collection c that reference entry k.
UsersIn(c, k) == Cardinality({i \in DOMAIN c.elems : grid[c.elems[i]].entry = k})

\* BKE_volume_copy_data copies the collection of the original in this step.
Copies(t) == Idle(t) /\ pc'[t] = "backup_restore"

\* C38: a copy of a collection has the same file_path, the same error_msg
\* and the same sequence of handles, each referencing the same entry as its
\* source and registered in the cache as one more user of it; so a copy
\* reports is_loaded only together with the handles it was loaded with.
C38_Step ==
  \A t \in VolumeThreads :
    Copies(t) =>
      LET source == grids["orig"]
          copy == grids'["cow"]
      IN  /\ copy.filepath = source.filepath
          /\ copy.error_msg = source.error_msg
          /\ Len(copy.elems) = Len(source.elems)
          /\ \A i \in DOMAIN source.elems :
               /\ i \in DOMAIN copy.elems
               /\ copy.elems[i] \in DOMAIN grid' \ DOMAIN grid
               /\ grid'[copy.elems[i]].entry = grid[source.elems[i]].entry
          /\ \A k \in DOMAIN cache :
               /\ k \in DOMAIN cache'
               /\ cache'[k].num_metadata_users + cache'[k].num_tree_users =
                    cache[k].num_metadata_users + cache[k].num_tree_users
                      + UsersIn(source, k)

C38_CopyKeepsHandles == [][C38_Step]_vars

\* The part of C38 about file_path and error_msg.
C38_CopyKeepsPath ==
  [][\A t \in VolumeThreads :
       Copies(t) => /\ grids'["cow"].filepath = grids["orig"].filepath
                    /\ grids'["cow"].error_msg = grids["orig"].error_msg]_vars

\* ---- C39 ----

\* The detached collection is kept: it is loaded and the file path of the
\* volume is the path remembered with it.
KeepsBackup(t) ==
  /\ loc[t].grids.filepath # EmptyPath
  /\ volume[vol[t]].filepath = loc[t].filepath

\* Thread t is inside BKE_volume_grids_backup_restore and stays there.
Restoring(t) == op[t] = "backup_restore" /\ op'[t] = "backup_restore"

\* Thread t returns from BKE_volume_grids_backup_restore.
Restored(t) == op[t] = "backup_restore" /\ op'[t] = "none"

\* While the function runs the collection it keeps is not touched; when it
\* returns the volume has the kept collection, the collection of the
\* original is as before, the only handles left are those of the two
\* volumes, each entry of the cache has as many users of each class as it
\* has handles, at least one, and no handle is without its entry.
C39_Step ==
  \A t \in VolumeThreads :
    /\ Restoring(t) =>
         /\ loc'[t].grids.filepath = loc[t].grids.filepath
         /\ loc'[t].filepath = loc[t].filepath
         /\ volume' = volume
         /\ grids'["orig"] = grids["orig"]
         /\ IF KeepsBackup(t)
              THEN loc'[t].grids = loc[t].grids
              ELSE grids' = grids
    /\ Restored(t) =>
         /\ grids'["cow"] = IF KeepsBackup(t) THEN loc[t].grids ELSE grids["cow"]
         /\ grids'["orig"] = grids["orig"]
         /\ DOMAIN grid' = Elems("orig")' \cup Elems("cow")'
         /\ \A h \in DOMAIN grid' :
              grid'[h].entry # NULL => grid'[h].entry \in DOMAIN cache'
         /\ \A k \in DOMAIN cache' :
              /\ cache'[k].num_metadata_users =
                   Cardinality({h \in DOMAIN grid' :
                                  grid'[h].entry = k /\ ~grid'[h].is_loaded})
              /\ cache'[k].num_tree_users =
                   Cardinality({h \in DOMAIN grid' :
                                  grid'[h].entry = k /\ grid'[h].is_loaded})
              /\ cache'[k].num_metadata_users + cache'[k].num_tree_users > 0

\* C39: BKE_volume_grids_backup_restore leaves the volume with exactly one
\* collection and destroys the other: the backed-up collection is kept if
\* and only if it is loaded and the file path of the volume equals the
\* backed-up path, otherwise the current collection is kept; the handles of
\* the destroyed collection release their cache users, and no entry is
\* leaked or erased while a handle still uses it.
C39_BackupRestore == [][C39_Step]_vars

\* The file path changed, so the loaded backed-up collection is discarded:
\* its last handle is destroyed and the entry of that handle erased, while
\* the volume keeps its current collection.
C39_Witness ==
  \E t \in VolumeThreads :
    /\ pc[t] = "delete_grids"
    /\ ~loc[t].restore
    /\ loc[t].grids.filepath # EmptyPath
    /\ loc[t].grids.elems = <<>>
    /\ volume["cow"].filepath # loc[t].filepath
    /\ evicted # <<>>
    /\ evicted[1][1] = loc[t].grids.filepath
    /\ evicted[1] \notin DOMAIN cache

\* The backed-up collection is loaded with handles and the file path is
\* unchanged: it replaces the current collection.
C39_WitnessKept ==
  \E t \in VolumeThreads :
    /\ pc[t] = "delete_grids"
    /\ loc[t].restore
    /\ loc[t].grids.elems # <<>>
    /\ grids["cow"].elems = <<>>

====
